---- MODULE Spec2Model ----
(***************************************************************************)
(* Model of the binary decoders of fs-parse: the BGL scenery container     *)
(* (fs_parse/bgl) and the MDL chunk container (fs_parse/mdl).              *)
(*                                                                         *)
(* Buffers are sequences of bytes; offsets are 0-based as in the source.   *)
(* struct formats use the native sizes of the platform the files come      *)
(* from (LLP64: 'L' and 'l' are 4 bytes, 'Q' is 8 bytes, natural           *)
(* alignment).  Unsigned 32-bit fields are read exactly; the inputs keep   *)
(* their values below 2^31.                                                *)
(***************************************************************************)
EXTENDS Integers, Sequences, FiniteSets, TLC

VARIABLES
    buf,            \* bgl_file_data: the whole file, never mutated
    pc,             \* position of BGLFile.parse
    error,          \* the exception that ended the decode, "none" otherwise
    header,         \* BGLFile.header
    sections,       \* BGLFile.sections
    section,        \* the BGLSection being decoded by BGLFile.parse
    subsection,     \* the subsection being decoded by BGLSection.parse
    loop,           \* loop indices and current_record_offset
    query,          \* the last accessor called on the BGLFile and what it returned
    mdl_buf,        \* mdl_file_data
    mdl,            \* one MDLFile per value of metadata_only
    util_call,      \* a call of a function of fs_parse/utils.py: name and argument
    util_result,    \* what the call returned or raised
    models_db,      \* the ModelsDB object: its four mappings, the last exception
    cache,          \* the cache file of the ModelsDB: a JSON document
    scans           \* calls of ModelsDB.scan so far

vars == <<buf, pc, error, header, sections, section, subsection, loop, query, mdl_buf, mdl,
          util_call, util_result, models_db, cache, scans>>

bglVars == <<buf, pc, error, header, sections, section, subsection, loop, query>>
mdlVars == <<mdl_buf, mdl>>
utilVars == <<util_call, util_result>>
dbVars == <<models_db, cache, scans>>

(***************************************************************************)
(* Bytes, slices and struct.unpack                                         *)
(***************************************************************************)
Min(a, b) == IF a < b THEN a ELSE b

\* buffer[a:b] for 0 <= a: clamped to the buffer, never an error
Slice(b, lo, hi) ==
    LET l == Min(lo, Len(b))
        h == Min(hi, Len(b))
    IN  IF h <= l THEN << >> ELSE SubSeq(b, l + 1, h)

\* struct.unpack(fmt, buffer[o:o + n]) raises struct.error unless the slice
\* has exactly calcsize(fmt) = n bytes
CanUnpack(b, o, n) == Len(Slice(b, o, o + n)) = n

U8(b, o) == b[o + 1]
U16(b, o) == b[o + 1] + 256 * b[o + 2]
U32(b, o) == b[o + 1] + 256 * b[o + 2] + 65536 * b[o + 3] + 16777216 * b[o + 4]

\* little-endian serialisation, used to build the input buffers
LE16(v) == << v % 256, (v \div 256) % 256 >>
LE32(v) == << v % 256, (v \div 256) % 256, (v \div 65536) % 256, (v \div 16777216) % 256 >>
Zeros(n) == [k \in 1..n |-> 0]

(***************************************************************************)
(* 64-bit timestamps: big numbers as big-endian digit sequences            *)
(***************************************************************************)
\* long division of the big-endian base-`base` number ds by the small d:
\* <<quotient digits, remainder>>.  (Intermediate values are bound by
\* CHOOSE over a singleton, which TLC evaluates once, where a LET would be
\* evaluated again at each use.)
RECURSIVE LongDiv(_, _, _, _, _)
LongDiv(ds, base, d, k, acc) ==
    IF k > Len(ds) THEN acc
    ELSE CHOOSE r \in { LongDiv(ds, base, d, k + 1, << Append(acc[1], cur \div d), cur % d >>) :
                        cur \in { acc[2] * base + ds[k] } } : TRUE

DivSmall(ds, base, d) ==
    CHOOSE r \in { LongDiv(v, base, d, 1, a) : v \in {ds}, a \in { << << >>, 0 >> } } : TRUE

\* the base-256 number bs (big-endian) as n base-1000 limbs (big-endian)
RECURSIVE ToLimbs(_, _)
ToLimbs(bs, n) ==
    IF n = 0 THEN << >>
    ELSE CHOOSE r \in { Append(ToLimbs(qr[1], n - 1), qr[2]) :
                        qr \in { DivSmall(bs, 256, 1000) } } : TRUE

Reverse(s) == [k \in 1..Len(s) |-> s[Len(s) + 1 - k]]

\* the 'Q' field at offset o, as 7 limbs (2^64 < 1000^7)
U64Limbs(b, o) == ToLimbs(Reverse(SubSeq(b, o + 1, o + 8)), 7)

\* a > b for two limb sequences of the same length, from limb k on
RECURSIVE LimbsGTFrom(_, _, _)
LimbsGTFrom(a, b, k) ==
    IF k > Len(a) THEN FALSE
    ELSE IF a[k] # b[k] THEN a[k] > b[k]
    ELSE LimbsGTFrom(a, b, k + 1)

LimbsGT(a, b) == LimbsGTFrom(a, b, 1)

\* datetime.max - datetime(1601, 1, 1) and datetime.max - datetime(1970, 1, 1),
\* in microseconds
MaxDelta1601 == << 0, 265, 46, 774, 399, 999, 999 >>
MaxDelta1970 == << 0, 253, 402, 300, 799, 999, 999 >>


(***************************************************************************)
(* fs_parse/utils.py: zero-terminated strings                              *)
(***************************************************************************)
\* str(value, 'ascii') raises UnicodeDecodeError on a byte above 0x7F
IsAscii(bs) == \A k \in 1..Len(bs) : bs[k] < 128

\* value.strip('\x00'): the zero bytes at both ends are removed
RECURSIVE StripLeft(_)
StripLeft(s) == IF Len(s) > 0 /\ s[1] = 0 THEN StripLeft(Tail(s)) ELSE s

\* the length of s[1..n] without the zero bytes at its end
RECURSIVE StrippedLen(_, _)
StrippedLen(s, n) == IF n > 0 /\ s[n] = 0 THEN StrippedLen(s, n - 1) ELSE n

StripRight(s) == CHOOSE r \in { SubSeq(v, 1, StrippedLen(v, Len(v))) : v \in {s} } : TRUE

stringz_2_ascii(value) ==
    CHOOSE r \in { IF IsAscii(v)
                   THEN [ok |-> TRUE, error |-> "none", text |-> StripRight(StripLeft(v))]
                   ELSE [ok |-> FALSE, error |-> "UnicodeDecodeError", text |-> << >>] :
                   v \in {value} } : TRUE

\* the while loop of read_stringz_word_aligned, from index i on
RECURSIVE WordAlignedLoop(_, _, _)
WordAlignedLoop(buffer, i, terminating) ==
    IF i >= Len(buffer) THEN [ok |-> FALSE, error |-> "IndexError", n |-> i]
    ELSE LET t == terminating \/ buffer[i + 1] = 0
         IN  IF i % 2 = 1 /\ t THEN [ok |-> TRUE, error |-> "none", n |-> i + 1]
             ELSE WordAlignedLoop(buffer, i + 1, t)

\* the loop entered as if the terminator had been seen
read_stringz_word_aligned_Terminating(buffer) ==
    LET l == WordAlignedLoop(buffer, 0, TRUE)
    IN  IF ~l.ok THEN [ok |-> FALSE, error |-> l.error, rawsize |-> 0, text |-> << >>]
        ELSE LET a == stringz_2_ascii(SubSeq(buffer, 1, l.n))
             IN  [ok |-> a.ok, error |-> a.error, rawsize |-> l.n, text |-> a.text]

read_stringz_word_aligned(buffer) ==
    LET l == WordAlignedLoop(buffer, 0, FALSE)
    IN  IF ~l.ok THEN [ok |-> FALSE, error |-> l.error, rawsize |-> 0, text |-> << >>]
        ELSE LET a == stringz_2_ascii(SubSeq(buffer, 1, l.n))
             IN  [ok |-> a.ok, error |-> a.error, rawsize |-> l.n, text |-> a.text]

\* the while loop of read_stringz, from index i on
RECURSIVE StringzLoop(_, _)
StringzLoop(buffer, i) ==
    IF i >= Len(buffer) THEN [ok |-> FALSE, error |-> "IndexError", n |-> i]
    ELSE IF buffer[i + 1] = 0 THEN [ok |-> TRUE, error |-> "none", n |-> i + 1]
    ELSE StringzLoop(buffer, i + 1)

read_stringz(buffer) ==
    LET l == StringzLoop(buffer, 0)
    IN  IF ~l.ok THEN [ok |-> FALSE, error |-> l.error, text |-> << >>]
        ELSE stringz_2_ascii(SubSeq(buffer, 1, l.n))

(***************************************************************************)
(* fs_parse/bgl/classes.py: BGLHeader                                      *)
(***************************************************************************)
BGLHeaderSize == 56          \* calcsize('@2LQ10L')
Magic1 == 428999169          \* 0x19920201
Magic2 == 134551555          \* 0x08051803

\* int(filetime_100_ns_intervals / 10): the quotient is taken exactly (the
\* source rounds it to the nearest double first, a relative change below
\* 2^-52)
Microseconds(raw) == DivSmall(raw, 1000, 10)[1]

\* the division by 1000 left out
Nanoseconds_Undivided(us) == us

\* int(microseconds / 1000)
Nanoseconds(us) == << 0 >> \o SubSeq(us, 1, Len(us) - 1)

\* the double nearest to raw / 10 differs from the exact quotient by at most
\* 128 below 2^61: MaxDelta1601 - 128 and MaxDelta1601 + 128
MaxDelta1601Low == << 0, 265, 46, 774, 399, 999, 871 >>
MaxDelta1601High == << 0, 265, 46, 774, 400, 0, 127 >>

\* the fallback of lines 42-44: the same value counted from 1970
Fallback(us) ==
    LET ns == Nanoseconds(us)
    IN  [ok |-> ~LimbsGT(ns, MaxDelta1970), epoch |-> 1970, us |-> ns]

\* lines 36-44: the dates the header can get, as the epoch counted from and
\* the microseconds added to it; datetime + timedelta raises OverflowError
\* beyond datetime.max.  Within the rounding distance of the limit either
\* branch can be taken.
FileTimes(raw) ==
    UNION { (IF ~LimbsGT(us, MaxDelta1601High)
             THEN {[ok |-> TRUE, epoch |-> 1601, us |-> us]} ELSE {})
            \cup
            (IF LimbsGT(us, MaxDelta1601Low) THEN {Fallback(us)} ELSE {}) :
            us \in { Microseconds(raw) } }

NoHeader == [magic_number_1 |-> Magic1, header_size |-> 0, filetime |-> << >>,
             epoch |-> 0, magic_number_2 |-> Magic2, sections_count |-> 0]

\* BGLHeader.parse with the date ft
BGLHeader_parse(b, ft) ==
    LET h == [magic_number_1 |-> U32(b, 0),
              header_size    |-> U32(b, 4),
              filetime       |-> ft.us,
              epoch          |-> ft.epoch,
              magic_number_2 |-> U32(b, 16),
              sections_count |-> U32(b, 20)]
    IN  IF ft.ok THEN [ok |-> TRUE, error |-> "none", header |-> h]
        ELSE [ok |-> FALSE, error |-> "OverflowError",
              header |-> [h EXCEPT !.filetime = << >>, !.epoch = 0]]

(***************************************************************************)
(* fs_parse/bgl/constants.py: the enumerations the record decoders coerce  *)
(* raw fields to (a value outside the enumeration raises ValueError)       *)
(***************************************************************************)
ImageComplexityValues == 0..5
BeaconTypeValues == 1..2
TaxiwaySignJustificationValues == 1..3

(***************************************************************************)
(* fs_parse/bgl/records/sceneryobject.py                                   *)
(***************************************************************************)
SceneryObjectHeaderSize == 28      \* calcsize('@2H2Ll6H')
InstanceIdSize == 16               \* calcsize('@16s')
LibraryObjectSize == 20            \* calcsize('@16sf')
BeaconSize == 4                    \* calcsize('@2BH')
WindSockSize == 18                 \* calcsize('@2f4s4sH')
EffectNameSize == 80               \* calcsize('@80s')
SignCountSize == 4                 \* calcsize('@L')
TaxiwaySignItemSize == 12          \* calcsize('@2fH2B')
ExtrusionBridgeSize == 68          \* calcsize('@16s16s3L3L2f2BH')
PlacementSize == 16                \* calcsize('@16s')
PointSize == 12                    \* calcsize('@3L')
FSXAttachedFixedSize == 48         \* calcsize('@8H3f16s2H')
FS9AttachedFixedSize == 28         \* calcsize('@8H3f')
DelimiterSize == 4                 \* calcsize('@2H')

Failed(e) == [ok |-> FALSE, error |-> e]

\* SceneryObjectRecordType
FS9_LIB_OBJ == 2
FS9_BEACON == 8
FSX_LIB_OBJ == 11
FSX_BEACON == 17

\* the registry with the tag 0x09 the source leaves commented out
SCENERYOBJECTS_IDS_With9 ==
    ( 1 :> "FS9GenericBuildingRecord" @@ 2 :> "FS9LibraryObjectRecord" @@
      3 :> "FS9WindSock" @@ 4 :> "FS9EffectPlacement" @@ 5 :> "FS9TaxiwaySign" @@
      7 :> "FS9TriggerRecord" @@ 8 :> "FS9BeaconRecord" @@
      9 :> "FS9GenericBuildingRecord" @@
      10 :> "FSXGenericBuildingRecord" @@ 11 :> "LibraryObjectRecord" @@
      12 :> "FSXWindSock" @@ 13 :> "FSXEffectPlacement" @@ 14 :> "FSXTaxiwaySign" @@
      16 :> "FSXTriggerRecord" @@ 17 :> "FSXBeaconRecord" @@
      18 :> "ExtrusionBridgeRecord" )

\* SCENERYOBJECTS_IDS: type tag -> record class
SCENERYOBJECTS_IDS ==
    ( 1 :> "FS9GenericBuildingRecord" @@ 2 :> "FS9LibraryObjectRecord" @@
      3 :> "FS9WindSock" @@ 4 :> "FS9EffectPlacement" @@ 5 :> "FS9TaxiwaySign" @@
      7 :> "FS9TriggerRecord" @@ 8 :> "FS9BeaconRecord" @@
      10 :> "FSXGenericBuildingRecord" @@ 11 :> "LibraryObjectRecord" @@
      12 :> "FSXWindSock" @@ 13 :> "FSXEffectPlacement" @@ 14 :> "FSXTaxiwaySign" @@
      16 :> "FSXTriggerRecord" @@ 17 :> "FSXBeaconRecord" @@
      18 :> "ExtrusionBridgeRecord" )

\* header_type of a record class: the FS9 classes use the 28-byte header,
\* the others the header followed by a 16-byte instance id
header_type(cls) ==
    IF cls \in {"FS9GenericBuildingRecord", "FS9LibraryObjectRecord", "FS9WindSock",
                "FS9EffectPlacement", "FS9TaxiwaySign", "FS9TriggerRecord",
                "FS9BeaconRecord"}
    THEN "FS9" ELSE "FSX"

\* SceneryObjectHeader.total_size / FSXSceneryObjectHeader.total_size
Header_total_size(family) ==
    IF family = "FSX" THEN SceneryObjectHeaderSize + InstanceIdSize
    ELSE SceneryObjectHeaderSize

\* SceneryObjectHeader.parse / FSXSceneryObjectHeader.parse at offset o
SceneryObjectHeader_parse(b, o, family) ==
    IF ~CanUnpack(b, o, SceneryObjectHeaderSize) THEN Failed("struct.error")
    ELSE IF U16(b, o + 24) \notin ImageComplexityValues THEN Failed("ValueError")
    ELSE IF family = "FSX" /\ ~CanUnpack(b, o + SceneryObjectHeaderSize, InstanceIdSize)
    THEN Failed("struct.error")
    ELSE [ok |-> TRUE, error |-> "none", id |-> U16(b, o), size |-> U16(b, o + 2)]

\* LibraryObject.parse
LibraryObject_parse(b, o) ==
    IF CanUnpack(b, o, LibraryObjectSize) THEN [ok |-> TRUE, error |-> "none"]
    ELSE Failed("struct.error")

\* Beacon.parse
Beacon_parse(b, o) ==
    IF ~CanUnpack(b, o, BeaconSize) THEN Failed("struct.error")
    ELSE IF U8(b, o) \notin BeaconTypeValues THEN Failed("ValueError")
    ELSE [ok |-> TRUE, error |-> "none"]

NoAttached ==
    [present |-> FALSE, offset |-> 0, start_delimiter_size |-> 4, object_type_id |-> 0,
     attached_object_data_size |-> 0, attach_point_string_relative_offset |-> 0,
     obj_data |-> "None", name_offset |-> 0, attach_point_name |-> << >>,
     end_delimiter_offset |-> 0, closing_delimiter_id |-> 0, closing_delimiter_size |-> 4]

\* the closing delimiter taken to repeat the id of the start delimiter
ClosingDelimiterId_AsStart(family) == IF family = "FSX" THEN 4098 ELSE 4096

\* the closing delimiter id FSXAttachedObjectData.parse (line 271) and
\* FS9AttachedObjectData.parse (line 338) compare with
ClosingDelimiterId(family) == IF family = "FSX" THEN 4099 ELSE 4097

\* the closing delimiter never compared
ClosingDelimiterMatches_Unchecked(id, family) == TRUE

\* lines 271 and 338: the comparison of the id read with the constant
ClosingDelimiterMatches(id, family) == id = ClosingDelimiterId(family)

AttachedFixedSize(family) ==
    IF family = "FSX" THEN FSXAttachedFixedSize ELSE FS9AttachedFixedSize

\* an offset counted from the start of the tail itself
AttachedOffset_FromTailStart(s, start_delimiter_size, relative) == s + relative

\* lines 262, 265, 329 and 332: an offset of the tail at s, counted from the
\* end of its start delimiter
AttachedOffset(s, start_delimiter_size, relative) == s + start_delimiter_size + relative

\* a payload selection that knows the library-object type ids alone
AttachedPayload_LibraryOnly(b, o, object_type_id) ==
    IF object_type_id \in {FS9_LIB_OBJ, FSX_LIB_OBJ}
    THEN [cls |-> "LibraryObject"] @@ LibraryObject_parse(b, o)
    ELSE [cls |-> "None"] @@ Failed("Exception: Unknown attached object type")

\* lines 251-260 and 318-327: the payload at offset o, selected by the type id
AttachedPayload(b, o, object_type_id) ==
    IF object_type_id \in {FS9_LIB_OBJ, FSX_LIB_OBJ}
    THEN [cls |-> "LibraryObject"] @@ LibraryObject_parse(b, o)
    ELSE IF object_type_id \in {FS9_BEACON, FSX_BEACON}
    THEN [cls |-> "Beacon"] @@ Beacon_parse(b, o)
    ELSE [cls |-> "None"] @@ Failed("Exception: Unknown attached object type")

\* FSXAttachedObjectData.parse / FS9AttachedObjectData.parse at offset s
AttachedObjectData_parse(b, s, family) ==
    IF ~CanUnpack(b, s, AttachedFixedSize(family)) THEN Failed("struct.error")
    ELSE
    LET start_delimiter_size == U16(b, s + 2)
        object_type_id == U16(b, s + 4)
        attached_object_data_size == U16(b, s + 6)
        relative_offset == U16(b, s + 8)
        attached_obj_data_offset == s + AttachedFixedSize(family)
        obj == AttachedPayload(b, attached_obj_data_offset, object_type_id)
        name_offset == AttachedOffset(s, start_delimiter_size, relative_offset)
        name == read_stringz_word_aligned(Slice(b, name_offset, Len(b)))
        end_delimiter_offset ==
            AttachedOffset(s, start_delimiter_size, attached_object_data_size)
    IN  IF ~obj.ok THEN Failed(obj.error)
        ELSE IF ~name.ok THEN Failed(name.error)
        ELSE IF ~CanUnpack(b, end_delimiter_offset, DelimiterSize) THEN Failed("struct.error")
        ELSE IF ~ClosingDelimiterMatches(U16(b, end_delimiter_offset), family)
        THEN Failed("Exception: attachedObject closing delimiter id")
        ELSE [ok |-> TRUE, error |-> "none",
              attached |->
                [present |-> TRUE, offset |-> s,
                 start_delimiter_size |-> start_delimiter_size,
                 object_type_id |-> object_type_id,
                 attached_object_data_size |-> attached_object_data_size,
                 attach_point_string_relative_offset |-> relative_offset,
                 obj_data |-> obj.cls,
                 name_offset |-> name_offset,
                 attach_point_name |-> name.text,
                 end_delimiter_offset |-> end_delimiter_offset,
                 closing_delimiter_id |-> U16(b, end_delimiter_offset),
                 closing_delimiter_size |-> U16(b, end_delimiter_offset + 2)]]

\* FSXAttachedObjectData.total_size / FS9AttachedObjectData.total_size
AttachedObjectData_total_size(a) ==
    a.start_delimiter_size + a.attached_object_data_size + a.closing_delimiter_size

\* one attached-object tag for both families
attached_object_delimiter_id_FSXOnly(family) == 4098

\* attached_object_delimiter_id of LibraryObjectRecord / FS9LibraryObjectRecord
attached_object_delimiter_id(family) == IF family = "FSX" THEN 4098 ELSE 4096

\* a decoded record: the fields the offset arithmetic and the queries use
Record(cls, o, h, attached, data) ==
    [cls |-> cls, offset |-> o, id |-> h.id, size |-> h.size,
     data_offset |-> o + Header_total_size(header_type(cls)),
     attached_object |-> attached, data |-> data]

NoData == [kind |-> "none"]

\* LibraryObjectRecord.parse after the header: lines 364-372
LibraryObjectRecord_parse(b, o, cls, h) ==
    LET family == header_type(cls)
        data_offset == o + Header_total_size(family)
        info == LibraryObject_parse(b, data_offset)
        next_record_offset == data_offset + LibraryObjectSize
        next_record_first_2_bytes == Slice(b, next_record_offset, next_record_offset + 2)
    IN  IF ~info.ok THEN Failed(info.error)
        ELSE IF Len(next_record_first_2_bytes) = 0
        THEN [ok |-> TRUE, error |-> "none", rec |-> Record(cls, o, h, NoAttached, NoData)]
        ELSE IF Len(next_record_first_2_bytes) # 2 THEN Failed("struct.error")
        ELSE IF U16(b, next_record_offset) # attached_object_delimiter_id(family)
        THEN [ok |-> TRUE, error |-> "none", rec |-> Record(cls, o, h, NoAttached, NoData)]
        ELSE LET a == AttachedObjectData_parse(b, next_record_offset, family)
             IN  IF ~a.ok THEN Failed(a.error)
                 ELSE [ok |-> TRUE, error |-> "none",
                       rec |-> Record(cls, o, h, a.attached, NoData)]


\* FSXBeaconRecord.parse after the header
BeaconRecord_parse(b, o, cls, h) ==
    LET data_offset == o + Header_total_size(header_type(cls))
        obj == Beacon_parse(b, data_offset)
    IN  IF ~obj.ok THEN Failed(obj.error)
        ELSE [ok |-> TRUE, error |-> "none", rec |-> Record(cls, o, h, NoAttached, NoData)]

\* FSXWindSock.parse after the header
WindSock_parse(b, o, cls, h) ==
    LET data_offset == o + Header_total_size(header_type(cls))
    IN  IF ~CanUnpack(b, data_offset, WindSockSize) THEN Failed("struct.error")
        ELSE [ok |-> TRUE, error |-> "none", rec |-> Record(cls, o, h, NoAttached, NoData)]

\* FSXEffectPlacement.parse after the header: lines 474-480
EffectPlacement_parse(b, o, cls, h) ==
    LET data_offset == o + Header_total_size(header_type(cls))
        effect_name_buffer == Slice(b, data_offset, data_offset + EffectNameSize)
        name == read_stringz_word_aligned(effect_name_buffer)
        params_offset == data_offset + EffectNameSize
        effect_params_buffer_size == h.size - EffectNameSize
        effect_params_buffer ==
            IF effect_params_buffer_size <= 0 THEN << >>
            ELSE Slice(b, params_offset, params_offset + effect_params_buffer_size)
        params == read_stringz(effect_params_buffer)
    IN  IF ~CanUnpack(b, data_offset, EffectNameSize) THEN Failed("struct.error")
        ELSE IF ~name.ok THEN Failed(name.error)
        ELSE IF ~params.ok THEN Failed(params.error)
        ELSE [ok |-> TRUE, error |-> "none",
              rec |-> Record(cls, o, h, NoAttached,
                             [kind |-> "effect", effect_name |-> name.text,
                              params_offset |-> params_offset,
                              params_window |-> Len(effect_params_buffer),
                              effect_params |-> params.text])]

\* a 32-bit float that is +inf or -inf: math.cos raises ValueError on it
IsInfinity(b, o) ==
    /\ U8(b, o) = 0 /\ U8(b, o + 1) = 0 /\ U8(b, o + 2) = 128
    /\ U8(b, o + 3) \in {127, 255}

\* TaxiwaySignDataItem.parse at offset o
TaxiwaySignDataItem_parse(b, o) ==
    IF ~CanUnpack(b, o, TaxiwaySignItemSize) THEN Failed("struct.error")
    ELSE IF IsInfinity(b, o + 4) THEN Failed("ValueError")
    ELSE IF U8(b, o + 11) \notin TaxiwaySignJustificationValues THEN Failed("ValueError")
    ELSE LET label == read_stringz_word_aligned(Slice(b, o + TaxiwaySignItemSize, Len(b)))
         IN  IF ~label.ok THEN Failed(label.error)
             ELSE [ok |-> TRUE, error |-> "none", label |-> label.text,
                   total_size |-> TaxiwaySignItemSize + label.rawsize]

\* the loop of FSXTaxiwaySign.parse (lines 143-147) from item i on
RECURSIVE TaxiwaySignItems(_, _, _, _, _)
TaxiwaySignItems(b, current_record_offset, i, count, items) ==
    IF i >= count THEN [ok |-> TRUE, error |-> "none", items |-> items]
    ELSE LET item == TaxiwaySignDataItem_parse(b, current_record_offset)
         IN  IF ~item.ok THEN Failed(item.error)
             ELSE TaxiwaySignItems(b, current_record_offset + item.total_size, i + 1, count,
                                   Append(items, [offset |-> current_record_offset,
                                                  label |-> item.label]))

\* FSXTaxiwaySign.parse after the header
TaxiwaySign_parse(b, o, cls, h) ==
    LET data_offset == o + Header_total_size(header_type(cls))
    IN  IF ~CanUnpack(b, data_offset, SignCountSize) THEN Failed("struct.error")
        ELSE LET r == TaxiwaySignItems(b, data_offset + SignCountSize, 0,
                                       U32(b, data_offset), << >>)
             IN  IF ~r.ok THEN Failed(r.error)
                 ELSE [ok |-> TRUE, error |-> "none",
                       rec |-> Record(cls, o, h, NoAttached,
                                      [kind |-> "signs", items |-> r.items])]

\* ExtrusionBridgeRecord.parse after the header: every placement and every
\* point is unpacked from its own slice
ExtrusionBridgeRecord_parse(b, o, cls, h) ==
    LET data_offset == o + Header_total_size(header_type(cls))
        placement_count == U8(b, data_offset + 65)
        point_count == U16(b, data_offset + 66)
        placements_offset == data_offset + ExtrusionBridgeSize
        points_offset == placements_offset + placement_count * PlacementSize
    IN  IF ~CanUnpack(b, data_offset, ExtrusionBridgeSize) THEN Failed("struct.error")
        ELSE IF \E i \in 0..(placement_count - 1) :
                    ~CanUnpack(b, placements_offset + i * PlacementSize, PlacementSize)
        THEN Failed("struct.error")
        ELSE IF \E i \in 0..(point_count - 1) :
                    ~CanUnpack(b, points_offset + i * PointSize, PointSize)
        THEN Failed("struct.error")
        ELSE [ok |-> TRUE, error |-> "none",
              rec |-> Record(cls, o, h, NoAttached,
                             [kind |-> "bridge", placement_count |-> placement_count,
                              point_count |-> point_count])]

\* record_class().parse(bgl_file_data, o): the header, then the class's own part
Record_parse(b, o, cls) ==
    LET h == SceneryObjectHeader_parse(b, o, header_type(cls))
    IN  IF ~h.ok THEN Failed(h.error)
        ELSE IF cls \in {"LibraryObjectRecord", "FS9LibraryObjectRecord"}
        THEN LibraryObjectRecord_parse(b, o, cls, h)
        ELSE IF cls \in {"FSXBeaconRecord", "FS9BeaconRecord"}
        THEN BeaconRecord_parse(b, o, cls, h)
        ELSE IF cls \in {"FSXWindSock", "FS9WindSock"}
        THEN WindSock_parse(b, o, cls, h)
        ELSE IF cls \in {"FSXEffectPlacement", "FS9EffectPlacement"}
        THEN EffectPlacement_parse(b, o, cls, h)
        ELSE IF cls \in {"FSXTaxiwaySign", "FS9TaxiwaySign"}
        THEN TaxiwaySign_parse(b, o, cls, h)
        ELSE IF cls = "ExtrusionBridgeRecord"
        THEN ExtrusionBridgeRecord_parse(b, o, cls, h)
        ELSE [ok |-> TRUE, error |-> "none", rec |-> Record(cls, o, h, NoAttached, NoData)]

\* the size of the header alone, whatever the record
total_size_HeaderOnly(rec) == rec.size

\* SceneryObjectRecord.total_size, overridden by LibraryObjectRecord.total_size
total_size(rec) ==
    IF rec.cls \in {"LibraryObjectRecord", "FS9LibraryObjectRecord"}
       /\ rec.attached_object.present
    THEN rec.size + AttachedObjectData_total_size(rec.attached_object)
    ELSE rec.size


(***************************************************************************)
(* fs_parse/bgl/records/modeldata.py                                       *)
(***************************************************************************)
ModelDataRecordSize == 24          \* calcsize('@16s2L')

\* ModelDataRecord.parse at offset o
ModelDataRecord_parse(b, o) ==
    IF ~CanUnpack(b, o, ModelDataRecordSize) THEN Failed("struct.error")
    ELSE LET mdl_file_offset == U32(b, o + 16)
             mdl_file_length == U32(b, o + 20)
         IN  [ok |-> TRUE, error |-> "none",
              rec |-> [cls |-> "ModelDataRecord", offset |-> o,
                       mdl_file_offset |-> mdl_file_offset,
                       mdl_file_length |-> mdl_file_length,
                       mdl_data |-> Slice(b, mdl_file_offset,
                                          mdl_file_offset + mdl_file_length)]]

(***************************************************************************)
(* fs_parse/bgl/subsections.py and fs_parse/bgl/classes.py: sections       *)
(***************************************************************************)
BGLSectionSize == 20               \* calcsize('@5L')
SubSectionHeaderSize == 16         \* calcsize('@4L')

\* BGLSectionType(value): the member of the enumeration with that value;
\* a value that no member has raises ValueError
BGLSectionTypeNames ==
    ( 0 :> "NONE" @@ 1 :> "COPYRIGHT" @@ 2 :> "GUID" @@ 3 :> "AIRPORT" @@
      37 :> "SCENERYOBJECT" @@ 43 :> "MODELDATA" @@ 101 :> "TERRAINVECTORDB" )

\* BGLSection.subsections_mapping
subsections_mapping(name) ==
    IF name \in {"NONE", "COPYRIGHT"} THEN "None"
    ELSE IF name = "SCENERYOBJECT" THEN "SceneryObject"
    ELSE IF name = "MODELDATA" THEN "ModelData"
    ELSE "BGLSubSection"

\* ((subsection_size_value & 0x10000) | 0x40000) >> 0x0E
SubsectionStride(raw) == IF (raw \div 65536) % 2 = 1 THEN 20 ELSE 16

NoSection ==
    [section_type |-> "NONE", subsection_size_value |-> 0, subsections_count |-> 0,
     sections_start_offset |-> 0, total_size |-> 0, subsection_class |-> "None",
     offset |-> 0, subsections |-> << >>]

\* BGLSection.parse, lines 119-127: the table entry at offset o
BGLSection_fields(b, o) ==
    IF ~CanUnpack(b, o, BGLSectionSize) THEN Failed("struct.error")
    ELSE IF U32(b, o) \notin DOMAIN BGLSectionTypeNames THEN Failed("ValueError")
    ELSE [ok |-> TRUE, error |-> "none",
          section |->
            [section_type |-> BGLSectionTypeNames[U32(b, o)],
             subsection_size_value |-> SubsectionStride(U32(b, o + 4)),
             subsections_count |-> U32(b, o + 8),
             sections_start_offset |-> U32(b, o + 12),
             total_size |-> U32(b, o + 16),
             subsection_class |-> subsections_mapping(BGLSectionTypeNames[U32(b, o)]),
             offset |-> o,
             subsections |-> << >>]]

NoSubsection ==
    [cls |-> "None", offset |-> 0, skip_invalid |-> TRUE,
     header |-> [QMID_a |-> 0, records_number |-> 0, first_record_file_offset |-> 0,
                 subsection_data_size |-> 0],
     records |-> << >>]

\* subsection_class() followed by BGLSubSection.parse: the standard header
\* at offset o
BGLSubSection_parse(b, o, cls) ==
    IF cls = "None" THEN Failed("TypeError")
    ELSE IF ~CanUnpack(b, o, SubSectionHeaderSize) THEN Failed("struct.error")
    ELSE [ok |-> TRUE, error |-> "none",
          subsection |->
            [cls |-> cls, offset |-> o, skip_invalid |-> TRUE,
             header |-> [QMID_a |-> U32(b, o), records_number |-> U32(b, o + 4),
                         first_record_file_offset |-> U32(b, o + 8),
                         subsection_data_size |-> U32(b, o + 12)],
             records |-> << >>]]

StartLoop == [i |-> 0, j |-> 0, k |-> 0, current_record_offset |-> 0]

(***************************************************************************)
(* BGLFile.parse as a state machine                                        *)
(***************************************************************************)
\* an exception leaves the decode: nothing else is decoded
Raise(e) ==
    /\ pc' = "failed"
    /\ error' = e
    /\ UNCHANGED <<sections, section, subsection, loop>>

\* BGLFile.parse, line 153: the section is complete and appended
SectionDone(sec, lp) ==
    /\ sections' = Append(sections, sec)
    /\ section' = NoSection
    /\ subsection' = NoSubsection
    /\ error' = error
    /\ IF lp.i + 1 < header.sections_count
       THEN /\ pc' = "section"
            /\ loop' = [StartLoop EXCEPT !.i = lp.i + 1]
       ELSE /\ pc' = "done"
            /\ loop' = lp

\* BGLSection.parse, line 132: the subsection is complete and appended
SubsectionDone(sec, sub, lp) ==
    LET sec2 == [sec EXCEPT !.subsections = Append(@, sub)]
    IN  IF lp.j + 1 < sec.subsections_count
        THEN /\ section' = sec2
             /\ subsection' = NoSubsection
             /\ pc' = "subsection"
             /\ loop' = [lp EXCEPT !.j = lp.j + 1, !.k = 0]
             /\ UNCHANGED <<sections, error>>
        ELSE SectionDone(sec2, lp)

\* BGLFile.parse, line 145: the header
ParseHeader ==
    /\ pc = "header"
    /\ IF ~CanUnpack(buf, 0, BGLHeaderSize)
       THEN /\ header' = header
            /\ Raise("struct.error")
       ELSE \E ft \in FileTimes(U64Limbs(buf, 8)) :
              LET r == BGLHeader_parse(buf, ft)
              IN  IF ~r.ok
                  THEN /\ header' = r.header
                       /\ Raise(r.error)
                  ELSE /\ header' = r.header
                       /\ pc' = IF r.header.sections_count > 0 THEN "section" ELSE "done"
                       /\ UNCHANGED <<error, sections, section, subsection, loop>>
    /\ UNCHANGED <<buf, query, mdlVars, utilVars, dbVars>>

\* BGLFile.parse, lines 149-151 and BGLSection.parse up to its loop
ParseSection ==
    /\ pc = "section"
    /\ LET section_offset == BGLHeaderSize + loop.i * BGLSectionSize
           r == BGLSection_fields(buf, section_offset)
       IN  IF ~r.ok THEN Raise(r.error)
           ELSE IF r.section.subsections_count = 0 THEN SectionDone(r.section, loop)
           ELSE /\ section' = r.section
                /\ pc' = "subsection"
                /\ loop' = [loop EXCEPT !.j = 0, !.k = 0]
                /\ UNCHANGED <<error, sections, subsection>>
    /\ UNCHANGED <<buf, header, query, mdlVars, utilVars, dbVars>>

\* BGLSection.parse, lines 129-131: subsection j and its header
ParseSubSection ==
    /\ pc = "subsection"
    /\ LET subsection_offset ==
               section.sections_start_offset + loop.j * section.subsection_size_value
           r == BGLSubSection_parse(buf, subsection_offset, section.subsection_class)
       IN  IF ~r.ok THEN Raise(r.error)
           ELSE IF r.subsection.cls = "BGLSubSection"
                   \/ r.subsection.header.records_number = 0
           THEN SubsectionDone(section, r.subsection, loop)
           ELSE /\ subsection' = r.subsection
                /\ pc' = IF r.subsection.cls = "SceneryObject" THEN "record" ELSE "model"
                /\ loop' = [loop EXCEPT !.k = 0,
                              !.current_record_offset =
                                  r.subsection.header.first_record_file_offset]
                /\ UNCHANGED <<error, sections, section>>
    /\ UNCHANGED <<buf, header, query, mdlVars, utilVars, dbVars>>

\* a record loop that also ends at the declared data size of the subsection
\* the record loop run until the declared end of the record data
MoreRecords_UntilDataEnd(sub, lp) ==
    lp.current_record_offset
      < sub.header.first_record_file_offset + sub.header.subsection_data_size

MoreRecords_WithinDataSize(sub, lp) ==
    /\ lp.k < sub.header.records_number
    /\ lp.current_record_offset
         < sub.header.first_record_file_offset + sub.header.subsection_data_size

\* SceneryObject.parse, line 104: for i in range(0, records_number)
MoreRecords(sub, lp) == lp.k < sub.header.records_number

\* SceneryObject.parse, lines 104-119: one iteration of the record loop
ParseSceneryRecord ==
    /\ pc = "record"
    /\ LET o == loop.current_record_offset
       IN  IF ~CanUnpack(buf, o, DelimiterSize) THEN Raise("struct.error")
           ELSE IF U16(buf, o) \notin DOMAIN SCENERYOBJECTS_IDS
           THEN Raise("Exception: UNKNOWN scenery object type")
           ELSE LET r == Record_parse(buf, o, SCENERYOBJECTS_IDS[U16(buf, o)])
                IN  IF ~r.ok THEN Raise(r.error)
                    ELSE LET sub == [subsection EXCEPT !.records = Append(@, r.rec)]
                             lp  == [loop EXCEPT !.k = loop.k + 1,
                                        !.current_record_offset = o + total_size(r.rec)]
                         IN  IF MoreRecords(sub, lp)
                             THEN /\ subsection' = sub
                                  /\ loop' = lp
                                  /\ UNCHANGED <<pc, error, sections, section>>
                             ELSE SubsectionDone(section, sub, lp)
    /\ UNCHANGED <<buf, header, query, mdlVars, utilVars, dbVars>>

\* ModelData.parse, lines 80-91: one iteration of the slot loop
ParseModelDataRecord ==
    /\ pc = "model"
    /\ LET record_offset ==
               subsection.header.first_record_file_offset + loop.k * ModelDataRecordSize
           r == ModelDataRecord_parse(buf, record_offset)
           lp == [loop EXCEPT !.k = loop.k + 1, !.current_record_offset = record_offset]
           sub == IF r.ok THEN [subsection EXCEPT !.records = Append(@, r.rec)]
                  ELSE subsection
       IN  IF ~r.ok /\ ~subsection.skip_invalid THEN Raise(r.error)
           ELSE IF lp.k < subsection.header.records_number
           THEN /\ subsection' = sub
                /\ loop' = lp
                /\ UNCHANGED <<pc, error, sections, section>>
           ELSE SubsectionDone(section, sub, lp)
    /\ UNCHANGED <<buf, header, query, mdlVars, utilVars, dbVars>>


(***************************************************************************)
(* Input files: serialised from small descriptions                         *)
(***************************************************************************)
MaxRecords == 2        \* records of a scenery-object subsection
MaxSubsections == 2    \* subsections of a section

TimeStamps ==
    { Zeros(8),
      << 0, 128, 6, 8, 209, 76, 202, 1 >>,            \* a date of 2009
      << 255, 63, 192, 209, 94, 90, 200, 36 >>,       \* 10 * MaxDelta1601 + 9
      << 0, 64, 192, 209, 94, 90, 200, 36 >>,         \* the next tick
      << 0, 0, 0, 0, 0, 0, 0, 128 >>,                 \* 2^63
      << 255, 255, 255, 255, 255, 255, 255, 255 >> }  \* 2^64 - 1

BGLHeaderBytes(m1, m2, ts, n) ==
    LE32(m1) \o LE32(BGLHeaderSize) \o ts \o LE32(m2) \o LE32(n) \o Zeros(32)

BGLSectionBytes(type, raw, count, start) ==
    LE32(type) \o LE32(raw) \o LE32(count) \o LE32(start) \o LE32(0)

SubSectionHeaderBytes(n, first, size) ==
    LE32(0) \o LE32(n) \o LE32(first) \o LE32(size)

FamilyOf(id) == header_type(SCENERYOBJECTS_IDS[id])

SceneryHeaderBytes(id, size, complexity) ==
    LE16(id) \o LE16(size) \o Zeros(20) \o LE16(complexity) \o LE16(0)
    \o (IF id \in DOMAIN SCENERYOBJECTS_IDS /\ FamilyOf(id) = "FSX"
        THEN Zeros(InstanceIdSize) ELSE << >>)

\* an attached-object tail: payload of the type, the name "A", the closing
\* delimiter with the given id
AttachedBytes(family, type, closing) ==
    LET fixed == AttachedFixedSize(family)
        payload == IF type \in {FS9_LIB_OBJ, FSX_LIB_OBJ} THEN Zeros(LibraryObjectSize)
                   ELSE IF type \in {FS9_BEACON, FSX_BEACON} THEN << 1, 1, 0, 0 >>
                   ELSE << >>
        name == << 65, 0 >>
    IN  LE16(attached_object_delimiter_id(family)) \o LE16(4) \o LE16(type)
        \o LE16(fixed - 4 + Len(payload) + Len(name))
        \o LE16(fixed - 4 + Len(payload))
        \o Zeros(fixed - 10) \o payload \o name \o LE16(closing) \o LE16(4)

NoTail == [present |-> FALSE, type |-> 0, closing |-> 0]

Tails ==
    {NoTail} \cup
    [present : {TRUE}, type : {FSX_LIB_OBJ, FS9_BEACON, 6},
     closing : {4096, 4097, 4098, 4099}]
    \cup [present : {TRUE}, type : {FS9_LIB_OBJ, FSX_BEACON}, closing : {4097, 4099}]

\* the bytes of one record: its header, its payload, pad bytes counted in
\* the size field and (library objects) the tail after the object info
RecordBytes(d) ==
    LET hs == IF d.id \in DOMAIN SCENERYOBJECTS_IDS
              THEN Header_total_size(FamilyOf(d.id)) ELSE SceneryObjectHeaderSize
        body ==
            IF d.kind = "lib" THEN Zeros(LibraryObjectSize)
            ELSE IF d.kind = "beacon" THEN << 1, 1, 0, 0 >>
            ELSE IF d.kind = "windsock" THEN Zeros(WindSockSize)
            ELSE IF d.kind = "effect" THEN << 70, 88 >> \o Zeros(EffectNameSize - 2) \o << 80, 0 >>
            ELSE IF d.kind = "effect0" THEN << 70, 88 >> \o Zeros(EffectNameSize - 2)
            ELSE IF d.kind = "signs" THEN LE32(1) \o Zeros(11) \o << 1, 65, 0 >>
            ELSE IF d.kind = "bridge"
            THEN Zeros(65) \o << 1 >> \o LE16(1) \o Zeros(PlacementSize + PointSize)
            ELSE << >>
        tail == IF d.tail.present
                THEN AttachedBytes(FamilyOf(d.id), d.tail.type, d.tail.closing)
                ELSE << >>
    IN  SceneryHeaderBytes(d.id, hs + Len(body) + d.pad, d.complexity)
        \o body \o tail \o Zeros(d.pad)

Desc(kind, id, tail, pad, complexity) ==
    [kind |-> kind, id |-> id, tail |-> tail, pad |-> pad, complexity |-> complexity]

\* the first record of a stream
FirstRecords ==
    { Desc("lib", id, t, 0, 0) : id \in {FS9_LIB_OBJ, FSX_LIB_OBJ}, t \in Tails }
    \cup { Desc("lib", FSX_LIB_OBJ, t, 4, 0) :
             t \in {NoTail, [present |-> TRUE, type |-> FSX_LIB_OBJ, closing |-> 4099]} }
    \cup { Desc("plain", id, NoTail, 0, 0) : id \in {1, 7, 10, 16} }
    \cup { Desc("plain", id, NoTail, 0, 0) : id \in {0, 6, 9, 19} }
    \cup { Desc("plain", 1, NoTail, 0, 9) }
    \cup { Desc("beacon", id, NoTail, 0, 0) : id \in {FS9_BEACON, FSX_BEACON} }
    \cup { Desc("windsock", id, NoTail, 0, 0) : id \in {3, 12} }
    \cup { Desc("effect", id, NoTail, 0, 0) : id \in {4, 13} }
    \cup { Desc("effect0", id, NoTail, 0, 0) : id \in {4, 13} }
    \cup { Desc("signs", id, NoTail, 0, 0) : id \in {5, 14} }
    \cup { Desc("bridge", 18, NoTail, 0, 0) }

\* the records that follow it
NextRecords ==
    { Desc("beacon", FSX_BEACON, NoTail, 0, 0), Desc("plain", 1, NoTail, 0, 0),
      Desc("plain", 6, NoTail, 0, 0), Desc("lib", FS9_LIB_OBJ, NoTail, 0, 0) }

RECURSIVE Streams(_)
Streams(n) ==
    IF n = 1 THEN { << d >> : d \in FirstRecords }
    ELSE LET shorter == Streams(n - 1)
         IN  shorter \cup { Append(st, d) : st \in { x \in shorter : Len(x) = n - 1 },
                                          d \in NextRecords }

RECURSIVE Concat(_)
Concat(ss) == IF Len(ss) = 0 THEN << >> ELSE Head(ss) \o Concat(Tail(ss))

\* a file with one scenery-object section of one subsection holding the
\* stream, followed by `extra` stray bytes
SceneryFile(stream, extra) ==
    LET first == BGLHeaderSize + BGLSectionSize + SubSectionHeaderSize
        data == Concat([k \in 1..Len(stream) |-> RecordBytes(stream[k])])
    IN  BGLHeaderBytes(Magic1, Magic2, Zeros(8), 1)
        \o BGLSectionBytes(37, 0, 1, BGLHeaderSize + BGLSectionSize)
        \o SubSectionHeaderBytes(Len(stream), first, Len(data))
        \o data \o Zeros(extra)

SceneryFiles == { SceneryFile(st, extra) : st \in Streams(MaxRecords), extra \in 0..2 }

\* a file with one section of `count` empty subsections whose table lacks
\* its last `cut` bytes
SectionFile(type, raw, count, cut) ==
    LET stride == SubsectionStride(raw)
        table == Zeros(count * stride)
    IN  BGLHeaderBytes(Magic1, Magic2, Zeros(8), 1)
        \o BGLSectionBytes(type, raw, count, BGLHeaderSize + BGLSectionSize)
        \o SubSeq(table, 1, IF Len(table) > cut THEN Len(table) - cut ELSE 0)

SectionFiles ==
    { SectionFile(type, raw, count, cut) :
        type \in {0, 1, 2, 37, 43, 101, 9999}, raw \in {0, 65536},
        count \in 0..MaxSubsections, cut \in {0, 4, 8} }

\* a file with the given magic numbers and timestamp and one generic section
HeaderFiles ==
    { BGLHeaderBytes(m1, m2, ts, 1)
      \o BGLSectionBytes(2, 0, 1, BGLHeaderSize + BGLSectionSize)
      \o SubSectionHeaderBytes(0, 0, 0) :
        m1 \in {Magic1, 0}, m2 \in {Magic2, 1}, ts \in TimeStamps }

\* a file with a generic section and a model-data section of one subsection
\* with n slots, the last one cut short by `cut` bytes; slot k refers to the
\* k bytes before the end of the file plus `over`
ModelDataFile(n, cut, over) ==
    LET first == BGLHeaderSize + 2 * BGLSectionSize + 2 * SubSectionHeaderSize
        len == first + n * ModelDataRecordSize - cut
        slots == Concat([k \in 1..n |-> Zeros(16) \o LE32(len - k) \o LE32(k + over)])
    IN  BGLHeaderBytes(Magic1, Magic2, Zeros(8), 2)
        \o BGLSectionBytes(2, 0, 1, BGLHeaderSize + 2 * BGLSectionSize)
        \o BGLSectionBytes(43, 0, 1, BGLHeaderSize + 2 * BGLSectionSize + SubSectionHeaderSize)
        \o SubSectionHeaderBytes(0, 0, 0)
        \o SubSectionHeaderBytes(n, first, n * ModelDataRecordSize)
        \o SubSeq(slots, 1, Len(slots) - cut)

ModelDataFiles ==
    { ModelDataFile(n, cut, over) :
        <<n, cut, over>> \in { x \in (0..MaxRecords) \X {0, 4, 24, 28} \X {0, 8} :
                                 x[2] <= x[1] * ModelDataRecordSize } }

\* short streams with library objects of both classes among other records
MixedStreams ==
    { << Desc("lib", FSX_LIB_OBJ, NoTail, 0, 0), Desc("beacon", FSX_BEACON, NoTail, 0, 0) >>,
      << Desc("plain", 1, NoTail, 0, 0), Desc("lib", FS9_LIB_OBJ, NoTail, 0, 0) >>,
      << Desc("lib", FS9_LIB_OBJ, NoTail, 0, 0) >> }

\* a file with a scenery-object section of two subsections (streams a and
\* b), a model-data section of one subsection with n slots and a second
\* scenery-object section of one subsection (stream c)
MixedFile(a, b, c, n) ==
    LET table == BGLHeaderSize + 3 * BGLSectionSize
        first == table + 4 * SubSectionHeaderSize
        da == Concat([k \in 1..Len(a) |-> RecordBytes(a[k])])
        db == Concat([k \in 1..Len(b) |-> RecordBytes(b[k])])
        dc == Concat([k \in 1..Len(c) |-> RecordBytes(c[k])])
        slots == Concat([k \in 1..n |-> Zeros(16) \o LE32(first) \o LE32(k)])
    IN  BGLHeaderBytes(Magic1, Magic2, Zeros(8), 3)
        \o BGLSectionBytes(37, 0, 2, table)
        \o BGLSectionBytes(43, 0, 1, table + 2 * SubSectionHeaderSize)
        \o BGLSectionBytes(37, 0, 1, table + 3 * SubSectionHeaderSize)
        \o SubSectionHeaderBytes(Len(a), first, Len(da))
        \o SubSectionHeaderBytes(Len(b), first + Len(da), Len(db))
        \o SubSectionHeaderBytes(n, first + Len(da) + Len(db), Len(slots))
        \o SubSectionHeaderBytes(Len(c), first + Len(da) + Len(db) + Len(slots), Len(dc))
        \o da \o db \o slots \o dc

MixedFiles ==
    { MixedFile(a, b, c, n) : a \in MixedStreams, b \in MixedStreams, c \in MixedStreams,
                              n \in 0..MaxRecords }

\* the same file with a declared subsection data size of its own
SceneryFileSized(stream, size) ==
    LET first == BGLHeaderSize + BGLSectionSize + SubSectionHeaderSize
        data == Concat([k \in 1..Len(stream) |-> RecordBytes(stream[k])])
    IN  BGLHeaderBytes(Magic1, Magic2, Zeros(8), 1)
        \o BGLSectionBytes(37, 0, 1, BGLHeaderSize + BGLSectionSize)
        \o SubSectionHeaderBytes(Len(stream), first, size)
        \o data

\* declared data sizes that end before the first record ends, or beyond the file
SizedFiles == { SceneryFileSized(st, size) : st \in MixedStreams, size \in {0, 4, 1000} }

\* a file that ends `cut` bytes early inside the tail of its only record, a
\* library placement of the given identifier with a tail of the given type
TruncatedTailFile(id, type, cut) ==
    LET whole == SceneryFile(<< Desc("lib", id, [present |-> TRUE, type |-> type,
                                                 closing |-> 4099], 0, 0) >>, 0)
    IN  SubSeq(whole, 1, Len(whole) - cut)

\* cut 4: the closing delimiter is missing; cut 6: the name as well
TruncatedTailFiles ==
    { TruncatedTailFile(id, type, cut) :
        id \in {FS9_LIB_OBJ, FSX_LIB_OBJ}, type \in {FSX_LIB_OBJ, FS9_BEACON, 6},
        cut \in {4, 6} }

\* a file whose only record is a library placement with a tail that
\* declares a start delimiter of 6 bytes and counts its offsets from there
WideTailFile(id) ==
    LET family == FamilyOf(id)
        fixed == AttachedFixedSize(family)
        first == BGLHeaderSize + BGLSectionSize + SubSectionHeaderSize
    IN  BGLHeaderBytes(Magic1, Magic2, Zeros(8), 1)
        \o BGLSectionBytes(37, 0, 1, BGLHeaderSize + BGLSectionSize)
        \o SubSectionHeaderBytes(1, first, 0)
        \o SceneryHeaderBytes(id, Header_total_size(family) + LibraryObjectSize, 0)
        \o Zeros(LibraryObjectSize)
        \o LE16(attached_object_delimiter_id(family)) \o LE16(6) \o LE16(FSX_LIB_OBJ)
        \o LE16(fixed - 6 + LibraryObjectSize + 2) \o LE16(fixed - 6 + LibraryObjectSize)
        \o Zeros(fixed - 10) \o Zeros(LibraryObjectSize) \o << 66, 0 >>
        \o LE16(ClosingDelimiterId(family)) \o LE16(4)

WideTailFiles == { WideTailFile(id) : id \in {FS9_LIB_OBJ, FSX_LIB_OBJ} }

\* a file whose subsection declares n records and holds one record, of the
\* given identifier, with a size field of 0
ZeroSizeFile(id, n) ==
    LET first == BGLHeaderSize + BGLSectionSize + SubSectionHeaderSize
    IN  BGLHeaderBytes(Magic1, Magic2, Zeros(8), 1)
        \o BGLSectionBytes(37, 0, 1, BGLHeaderSize + BGLSectionSize)
        \o SubSectionHeaderBytes(n, first, 64)
        \o SceneryHeaderBytes(id, 0, 0) \o << 1, 1, 0, 0 >>

ZeroSizeFiles == { ZeroSizeFile(id, n) : id \in {1, 16, FS9_BEACON, FSX_BEACON},
                                        n \in 1..MaxRecords }

BGLInputs ==
    SceneryFiles \cup SectionFiles \cup HeaderFiles \cup ModelDataFiles \cup MixedFiles
    \cup SizedFiles \cup TruncatedTailFiles
    \cup WideTailFiles \cup ZeroSizeFiles
    \cup { SubSeq(BGLHeaderBytes(Magic1, Magic2, Zeros(8), 0), 1, n) : n \in {40, BGLHeaderSize} }

\* no accessor of the BGLFile has been called
NoQuery == [fn |-> "none", error |-> "none", value |-> << >>]

BGLIdle ==
    /\ query = NoQuery
    /\ buf = << >>
    /\ pc = "idle"
    /\ error = "none"
    /\ header = NoHeader
    /\ sections = << >>
    /\ section = NoSection
    /\ subsection = NoSubsection
    /\ loop = StartLoop

MDLIdle ==
    /\ mdl_buf = << >>
    /\ mdl = << >>

\* no function of utils.py is called on its own
NoCall == [fn |-> "none", arg |-> << >>]
Pending == [state |-> "pending", error |-> "none", value |-> << >>]

UtilIdle ==
    /\ util_call = NoCall
    /\ util_result = Pending

\* no ModelsDB object, no cache file
NoDB ==
    [state |-> "none", error |-> "none", file_2_uuids |-> << >>, uuid_2_files |-> << >>,
     placement_2_files |-> << >>, file_2_placements |-> << >>]
NoFile == << "no file" >>

DBIdle ==
    /\ models_db = NoDB
    /\ cache = NoFile
    /\ scans = 0

\* BGLFile(): a new file object and the buffer given to parse
Init ==
    /\ buf \in BGLInputs
    /\ pc = "header"
    /\ error = "none"
    /\ header = NoHeader
    /\ sections = << >>
    /\ section = NoSection
    /\ subsection = NoSubsection
    /\ loop = StartLoop
    /\ query = NoQuery
    /\ MDLIdle
    /\ UtilIdle
    /\ DBIdle

\* isinstance(record, LibraryObjectRecord)
IsLibraryObjectRecord(record) ==
    record.cls \in {"LibraryObjectRecord", "FS9LibraryObjectRecord"}

\* the placements of the FSX class alone
RECURSIVE get_placements_FSXOnly(_)
get_placements_FSXOnly(secs) ==
    IF secs = << >> THEN << >>
    ELSE LET sec == secs[Len(secs)]
             IsFSX(record) == record.cls = "LibraryObjectRecord"
         IN  get_placements_FSXOnly(SubSeq(secs, 1, Len(secs) - 1))
             \o (IF sec.section_type = "SCENERYOBJECT"
                 THEN Concat([j \in 1..Len(sec.subsections) |->
                                SelectSeq(sec.subsections[j].records, IsFSX)])
                 ELSE << >>)

\* BGLFile.get_placements, lines 157-162, over the sections secs
RECURSIVE get_placements(_)
get_placements(secs) ==
    IF secs = << >> THEN << >>
    ELSE LET sec == secs[Len(secs)]
         IN  get_placements(SubSeq(secs, 1, Len(secs) - 1))
             \o (IF sec.section_type = "SCENERYOBJECT"
                 THEN Concat([j \in 1..Len(sec.subsections) |->
                                SelectSeq(sec.subsections[j].records,
                                          IsLibraryObjectRecord)])
                 ELSE << >>)

\* BGLFile.get_models, lines 166-173, over the sections secs
RECURSIVE get_models(_)
get_models(secs) ==
    IF secs = << >> THEN << >>
    ELSE LET sec == secs[Len(secs)]
         IN  get_models(SubSeq(secs, 1, Len(secs) - 1))
             \o (IF sec.section_type = "MODELDATA"
                 THEN Concat([j \in 1..Len(sec.subsections) |->
                                sec.subsections[j].records])
                 ELSE << >>)

\* line 170: assert isinstance(subsection, ModelData)
get_models_asserts(secs) ==
    \A i \in 1..Len(secs) :
        secs[i].section_type = "MODELDATA"
        => \A j \in 1..Len(secs[i].subsections) : secs[i].subsections[j].cls = "ModelData"

\* file.get_placements() after parse returned or raised
Call_get_placements ==
    /\ pc \in {"done", "failed"}
    /\ query' = [fn |-> "get_placements", error |-> "none",
                 value |-> get_placements(sections)]
    /\ UNCHANGED <<buf, pc, error, header, sections, section, subsection, loop,
                   mdlVars, utilVars, dbVars>>

\* file.get_models() after parse returned or raised
Call_get_models ==
    /\ pc \in {"done", "failed"}
    /\ query' = IF get_models_asserts(sections)
                THEN [fn |-> "get_models", error |-> "none",
                      value |-> get_models(sections)]
                ELSE [fn |-> "get_models", error |-> "AssertionError", value |-> << >>]
    /\ UNCHANGED <<buf, pc, error, header, sections, section, subsection, loop,
                   mdlVars, utilVars, dbVars>>

Next ==
    \/ ParseHeader
    \/ ParseSection
    \/ ParseSubSection
    \/ ParseSceneryRecord
    \/ ParseModelDataRecord
    \/ Call_get_placements
    \/ Call_get_models

Spec == Init /\ [][Next]_vars

(***************************************************************************)
(* ModelData(skip_invalid).parse called on its own (subsections.py 73-91)  *)
(***************************************************************************)
\* a slot stride of the UUID alone
record_offset_UUIDStride(sub, i) ==
    sub.header.first_record_file_offset + i * 16

\* subsections.py, line 81: the offset of slot i
record_offset(sub, i) ==
    sub.header.first_record_file_offset + i * ModelDataRecordSize

\* ModelData.parse, line 79: the subsection header
ModelData_parse ==
    /\ pc = "modeldata"
    /\ LET r == BGLSubSection_parse(buf, subsection.offset, "ModelData")
       IN  IF ~r.ok
           THEN /\ pc' = "failed"
                /\ error' = r.error
                /\ UNCHANGED <<subsection, loop>>
           ELSE /\ subsection' = [r.subsection EXCEPT
                                     !.skip_invalid = subsection.skip_invalid]
                /\ pc' = IF r.subsection.header.records_number > 0
                         THEN "slot" ELSE "returned"
                /\ UNCHANGED <<error, loop>>
    /\ UNCHANGED <<buf, header, sections, section, query, mdlVars, utilVars, dbVars>>

\* ModelData.parse, lines 80-91: one iteration of the slot loop
ModelData_slot ==
    /\ pc = "slot"
    /\ LET o == record_offset(subsection, loop.k)
           r == ModelDataRecord_parse(buf, o)
       IN  /\ loop' = [loop EXCEPT !.k = loop.k + 1, !.current_record_offset = o]
           /\ IF r.ok
              THEN /\ subsection' = [subsection EXCEPT !.records = Append(@, r.rec)]
                   /\ error' = error
                   /\ pc' = IF loop.k + 1 < subsection.header.records_number
                            THEN "slot" ELSE "returned"
              ELSE IF subsection.skip_invalid
              THEN /\ UNCHANGED <<subsection, error>>
                   /\ pc' = IF loop.k + 1 < subsection.header.records_number
                            THEN "slot" ELSE "returned"
              ELSE /\ pc' = "failed"
                   /\ error' = r.error
                   /\ subsection' = subsection
    /\ UNCHANGED <<buf, header, sections, section, query, mdlVars, utilVars, dbVars>>

\* the offset of the model-data subsection header in a ModelDataFile
ModelDataHeaderOffset == BGLHeaderSize + 2 * BGLSectionSize + SubSectionHeaderSize

\* ModelData(skip_invalid): a new subsection object, and the buffer and the
\* offset given to parse
InitModelData ==
    /\ buf \in ModelDataFiles
    /\ pc = "modeldata"
    /\ error = "none"
    /\ header = NoHeader
    /\ sections = << >>
    /\ section = NoSection
    /\ \E skip \in BOOLEAN, o \in {ModelDataHeaderOffset, Len(buf) - 8} :
         subsection = [NoSubsection EXCEPT !.cls = "ModelData", !.offset = o,
                                           !.skip_invalid = skip]
    /\ loop = StartLoop
    /\ query = NoQuery
    /\ MDLIdle
    /\ UtilIdle
    /\ DBIdle

NextModelData == ModelData_parse \/ ModelData_slot

SpecModelData == InitModelData /\ [][NextModelData]_vars


(***************************************************************************)
(* fs_parse/mdl: the RIFF chunk container                                  *)
(***************************************************************************)
\* the 4-character tags, as their bytes
Tag ==
    [ MDLH |-> << 77, 68, 76, 72 >>,
      MDLG |-> << 77, 68, 76, 71 >>,
      MDLN |-> << 77, 68, 76, 78 >>,
      SMAP |-> << 83, 77, 65, 80 >>,
      PARA |-> << 80, 65, 82, 65 >>,
      CRAS |-> << 67, 82, 65, 83 >>,
      BBOX |-> << 66, 66, 79, 88 >>,
      RADI |-> << 82, 65, 68, 73 >>,
      MDLD |-> << 77, 68, 76, 68 >>,
      TEXT |-> << 84, 69, 88, 84 >>,
      MATE |-> << 77, 65, 84, 69 >>,
      INDE |-> << 73, 78, 68, 69 >>,
      VERB |-> << 86, 69, 82, 66 >>,
      TRAN |-> << 84, 82, 65, 78 >>,
      AMAP |-> << 65, 77, 65, 80 >>,
      SCEN |-> << 83, 67, 69, 78 >>,
      SGAL |-> << 83, 71, 65, 76 >>,
      SGVL |-> << 83, 71, 86, 76 >>,
      SGJC |-> << 83, 71, 74, 67 >>,
      SGBR |-> << 83, 71, 66, 82 >>,
      LODT |-> << 76, 79, 68, 84 >>,
      ANIB |-> << 65, 78, 73, 66 >>,
      PLAL |-> << 80, 76, 65, 76 >>,
      REFL |-> << 82, 69, 70, 76 >>,
      ATTO |-> << 65, 84, 84, 79 >>,
      VISL |-> << 86, 73, 83, 76 >>,
      MREC |-> << 77, 82, 69, 67 >>,
      MREI |-> << 77, 82, 69, 73 >>,
      RIFF |-> << 82, 73, 70, 70 >>,
      MDLX |-> << 77, 68, 76, 88 >> ]

RIFFHeaderSize == 8                \* calcsize('4sL')
VersionSize == 4                   \* calcsize('4s')
texture_size == 64
MaterialItemSize == 120            \* calcsize('9L16f3L2f')
triangle_size == 6                 \* calcsize('3H')
matrix_size == 64                  \* calcsize('16f')
AnimationItemSize == 8             \* calcsize('2L')
CRASFixedSize == 36                \* calcsize('2L6fL')

\* fs_parse/mdl/constants.py
BlendTypeValues == 1..10
AlphaTestFunctionValues == 1..8
AnimationTransformationTypeValues == 1..2

\* str(value, 'utf-8'): well-formed UTF-8 from index k on, else
\* UnicodeDecodeError
IsCont(bs, k) == k <= Len(bs) /\ bs[k] \in 128..191

RECURSIVE IsUtf8From(_, _)
IsUtf8From(bs, k) ==
    IF k > Len(bs) THEN TRUE
    ELSE LET c == bs[k]
         IN  IF c < 128 THEN IsUtf8From(bs, k + 1)
             ELSE IF c \in 194..223 THEN IsCont(bs, k + 1) /\ IsUtf8From(bs, k + 2)
             ELSE IF c \in 224..239
             THEN /\ IsCont(bs, k + 1) /\ IsCont(bs, k + 2)
                  /\ (c = 224 => bs[k + 1] >= 160)
                  /\ (c = 237 => bs[k + 1] <= 159)
                  /\ IsUtf8From(bs, k + 3)
             ELSE IF c \in 240..244
             THEN /\ IsCont(bs, k + 1) /\ IsCont(bs, k + 2) /\ IsCont(bs, k + 3)
                  /\ (c = 240 => bs[k + 1] >= 144)
                  /\ (c = 244 => bs[k + 1] <= 143)
                  /\ IsUtf8From(bs, k + 4)
             ELSE FALSE

IsUtf8(bs) == IsUtf8From(bs, 1)

\* RIFFSectionHeader.parse at offset o
RIFFSectionHeader_parse(b, o) ==
    IF ~CanUnpack(b, o, RIFFHeaderSize) THEN Failed("struct.error")
    ELSE IF ~IsUtf8(SubSeq(b, o + 1, o + 4)) THEN Failed("UnicodeDecodeError")
    ELSE [ok |-> TRUE, error |-> "none",
          header |-> [offset |-> o, type_id |-> SubSeq(b, o + 1, o + 4),
                      data_size |-> U32(b, o + 4)]]

\* RIFFSection.section_types
RIFF_section_types ==
    {Tag.MDLH, Tag.MDLG, Tag.MDLN, Tag.SMAP, Tag.PARA, Tag.CRAS, Tag.BBOX, Tag.RADI}

\* the table with the tag "XXXX" added
MDLD_section_types_WithXXXX ==
    {Tag.TEXT, Tag.MATE, Tag.INDE, Tag.VERB, Tag.TRAN, Tag.AMAP, Tag.SCEN, Tag.SGAL,
     Tag.SGVL, Tag.SGJC, Tag.SGBR, Tag.LODT, Tag.ANIB, Tag.PLAL, Tag.REFL, Tag.ATTO,
     Tag.VISL, Tag.MREC, Tag.MREI, << 88, 88, 88, 88 >>}

\* MDLDSection.section_types
MDLD_section_types ==
    {Tag.TEXT, Tag.MATE, Tag.INDE, Tag.VERB, Tag.TRAN, Tag.AMAP, Tag.SCEN, Tag.SGAL,
     Tag.SGVL, Tag.SGJC, Tag.SGBR, Tag.LODT, Tag.ANIB, Tag.PLAL, Tag.REFL, Tag.ATTO,
     Tag.VISL, Tag.MREC, Tag.MREI}

\* MDLDSection.metadata_only_exclude
metadata_only_exclude == {Tag.INDE, Tag.VERB, Tag.TRAN, Tag.ANIB}

\* one item of a fixed-stride chunk at offset o, after its bytes were unpacked
Item_parse(type_id, b, o) ==
    IF type_id = Tag.TEXT
    THEN LET a == stringz_2_ascii(SubSeq(b, o + 1, o + texture_size))
         IN  IF a.ok THEN [ok |-> TRUE, error |-> "none",
                           item |-> [offset |-> o, value |-> a.text]]
             ELSE Failed(a.error)
    ELSE IF type_id = Tag.MATE
            /\ ~(/\ U32(b, o + 100) \in BlendTypeValues
                 /\ U32(b, o + 104) \in BlendTypeValues
                 /\ U32(b, o + 108) \in AlphaTestFunctionValues)
    THEN Failed("ValueError")
    ELSE IF type_id = Tag.AMAP /\ U32(b, o) \notin AnimationTransformationTypeValues
    THEN Failed("ValueError")
    ELSE [ok |-> TRUE, error |-> "none", item |-> [offset |-> o, value |-> << >>]]

\* the item stride of TEXTSection, MATESection, INDESection, TRANSection and
\* AMAPSection
Stride(type_id) ==
    IF type_id = Tag.TEXT THEN texture_size
    ELSE IF type_id = Tag.MATE THEN MaterialItemSize
    ELSE IF type_id = Tag.INDE THEN triangle_size
    ELSE IF type_id = Tag.TRAN THEN matrix_size
    ELSE AnimationItemSize

\* the while loop of TEXTSection.parse, MATESection.parse, INDESection.parse,
\* TRANSection.parse and AMAPSection.parse from current_offset on
RECURSIVE Items(_, _, _, _, _)
Items(type_id, b, current_offset, end, items) ==
    IF ~(current_offset < end) THEN [ok |-> TRUE, error |-> "none", items |-> items]
    ELSE IF ~CanUnpack(b, current_offset, Stride(type_id)) THEN Failed("struct.error")
    ELSE LET it == Item_parse(type_id, b, current_offset)
         IN  IF ~it.ok THEN Failed(it.error)
             ELSE Items(type_id, b, current_offset + Stride(type_id), end,
                        Append(items, it.item))

\* section.parse(mdl_file_data, file_offset) of a chunk of the data chunk
MDLDChild_parse(h, b, file_offset) ==
    IF h.type_id \in {Tag.TEXT, Tag.MATE, Tag.INDE, Tag.TRAN, Tag.AMAP}
    THEN Items(h.type_id, b, file_offset, file_offset + h.data_size, << >>)
    ELSE [ok |-> TRUE, error |-> "none", items |-> << >>]

\* StringZ.parse followed by StringZ.size (MDLNSection.parse)
MDLN_parse(b, file_offset) ==
    LET r == read_stringz(Slice(b, file_offset, Len(b)))
    IN  IF ~r.ok THEN Failed(r.error)
        ELSE IF Len(r.text) = 0 THEN Failed("Exception: You must call .parse()")
        ELSE [ok |-> TRUE, error |-> "none",
              items |-> << [offset |-> file_offset, value |-> r.text] >>]

\* CRASSection.parse
CRAS_parse(b, file_offset) ==
    IF ~CanUnpack(b, file_offset, CRASFixedSize) THEN Failed("struct.error")
    ELSE LET nodes_count == U32(b, file_offset + 32)
             current_offset == file_offset + CRASFixedSize
         IN  IF \E i \in 0..(nodes_count - 1) : ~CanUnpack(b, current_offset + i * 4, 4)
             THEN Failed("struct.error")
             ELSE [ok |-> TRUE, error |-> "none",
                   items |-> [i \in 1..nodes_count |->
                                [offset |-> current_offset + (i - 1) * 4, value |-> << >>]]]

\* the fixed struct of MDLHSection, MDLGSection, BBOXSection and RADISection
RIFFFixedSize(type_id) ==
    IF type_id = Tag.MDLH THEN 8
    ELSE IF type_id = Tag.MDLG THEN 16
    ELSE IF type_id = Tag.BBOX THEN 24
    ELSE 4

\* section.parse(mdl_file_data, file_offset) of a chunk of the RIFF level
RIFFChild_parse(h, b, file_offset) ==
    IF h.type_id = Tag.MDLN THEN MDLN_parse(b, file_offset)
    ELSE IF h.type_id = Tag.CRAS THEN CRAS_parse(b, file_offset)
    ELSE IF h.type_id \in {Tag.SMAP, Tag.PARA}
    THEN [ok |-> TRUE, error |-> "none", items |-> << >>]
    ELSE IF ~CanUnpack(b, file_offset, RIFFFixedSize(h.type_id)) THEN Failed("struct.error")
    ELSE [ok |-> TRUE, error |-> "none", items |-> << >>]

\* metadata_only ignored
ShouldParse_Always(metadata_only, type_id) == TRUE

\* MDLDSection.parse, line 395: whether the payload is decoded
ShouldParse(metadata_only, type_id) ==
    (~metadata_only) \/ (type_id \notin metadata_only_exclude)

\* a decoded chunk: its header, whether its payload was decoded, its items
Section(h, parsed, items) ==
    [type_id |-> h.type_id, header_offset |-> h.offset, data_size |-> h.data_size,
     parsed |-> parsed, items |-> items, children |-> << >>]

\* MDLFile(metadata_only = m) before parse
NewMDLFile ==
    [pc |-> "start", error |-> "none",
     header |-> [offset |-> 0, type_id |-> << >>, data_size |-> 0],
     version_string |-> Tag.MDLX,
     file_offset |-> 0, current_offset |-> 0,
     chunks |-> << >>,          \* the chunk headers read, both levels
     sections |-> << >>,        \* the chunks set as attributes of the RIFF section
     mdld |-> [header |-> [offset |-> 0, type_id |-> << >>, data_size |-> 0],
               file_offset |-> 0, current_offset |-> 0, sections |-> << >>]]

\* getattr(section, name): the last chunk with that tag that was set
HasAttr(secs, type_id) == \E k \in 1..Len(secs) : secs[k].type_id = type_id

Attr(secs, type_id) ==
    secs[CHOOSE k \in 1..Len(secs) :
            /\ secs[k].type_id = type_id
            /\ \A l \in (k + 1)..Len(secs) : secs[l].type_id # type_id]

\* the names of the table last to first
get_texture_names_Reversed(f) ==
    IF HasAttr(f.sections, Tag.MDLD)
       /\ HasAttr(Attr(f.sections, Tag.MDLD).children, Tag.TEXT)
    THEN LET items == Attr(Attr(f.sections, Tag.MDLD).children, Tag.TEXT).items
         IN  [k \in 1..Len(items) |-> items[Len(items) + 1 - k].value]
    ELSE << >>

\* MDLFile.get_texture_names: texture_names of riff_section.mdld.text when
\* both attributes are set
get_texture_names(f) ==
    IF HasAttr(f.sections, Tag.MDLD)
       /\ HasAttr(Attr(f.sections, Tag.MDLD).children, Tag.TEXT)
    THEN LET items == Attr(Attr(f.sections, Tag.MDLD).children, Tag.TEXT).items
         IN  [k \in 1..Len(items) |-> items[k].value]
    ELSE << >>


(***************************************************************************)
(* MDLFile.parse as a state machine; the same buffer is decoded by a file  *)
(* object with metadata_only = FALSE and then by one with metadata_only =  *)
(* TRUE                                                                    *)
(***************************************************************************)
Finished(f) == f.pc \in {"done", "failed"}

Turn(m) == m = FALSE \/ Finished(mdl[FALSE])

MDLRaise(f, e) == [f EXCEPT !.pc = "failed", !.error = e]

\* the loop condition of RIFFSection.parse, line 54
RIFFContinue(f) ==
    [f EXCEPT !.pc = IF f.current_offset < f.file_offset + f.header.data_size
                     THEN "riff" ELSE "done"]

\* MDLDSection.parse, line 405 and RIFFSection.parse, line 72
NextChunkOffset(current_offset, h) == current_offset + h.data_size

\* MDLFile.parse and RIFFSection.parse, lines 48-53
MDLFile_parse(f, b) ==
    LET r == RIFFSectionHeader_parse(b, 0)
        file_offset == RIFFHeaderSize
        version_string == SubSeq(b, file_offset + 1, file_offset + VersionSize)
    IN  IF ~r.ok THEN MDLRaise(f, r.error)
        ELSE LET g == [f EXCEPT !.header = r.header, !.file_offset = file_offset]
             IN  IF ~CanUnpack(b, file_offset, VersionSize) THEN MDLRaise(g, "struct.error")
                 ELSE IF ~IsUtf8(version_string) THEN MDLRaise(g, "UnicodeDecodeError")
                 ELSE IF version_string # Tag.MDLX
                 THEN MDLRaise([g EXCEPT !.version_string = version_string],
                               "UnsupportedMDLVersionException")
                 ELSE RIFFContinue([g EXCEPT !.version_string = version_string,
                                             !.current_offset = file_offset + VersionSize])

\* the data chunk is complete: RIFFSection.parse, lines 69 and 72
MDLDDone(f) ==
    RIFFContinue([f EXCEPT
        !.sections = Append(@, [Section(f.mdld.header, TRUE, << >>)
                                  EXCEPT !.children = f.mdld.sections]),
        !.current_offset = NextChunkOffset(f.mdld.file_offset, f.mdld.header)])

\* RIFFSection.parse, lines 55-72: one iteration of the chunk loop
RIFFSection_step(f, b) ==
    LET r == RIFFSectionHeader_parse(b, f.current_offset)
        current_offset == f.current_offset + RIFFHeaderSize
    IN  IF ~r.ok THEN MDLRaise(f, r.error)
        ELSE LET g == [f EXCEPT !.chunks = Append(@, [level |-> "riff"] @@ r.header),
                                !.current_offset = current_offset]
             IN  IF r.header.type_id \in RIFF_section_types
                 THEN LET p == RIFFChild_parse(r.header, b, current_offset)
                      IN  IF ~p.ok THEN MDLRaise(g, p.error)
                          ELSE RIFFContinue(
                                 [g EXCEPT !.sections = Append(@, Section(r.header, TRUE, p.items)),
                                           !.current_offset = NextChunkOffset(current_offset, r.header)])
                 ELSE IF r.header.type_id = Tag.MDLD
                 THEN LET d == [g EXCEPT !.mdld = [header |-> r.header,
                                                   file_offset |-> current_offset,
                                                   current_offset |-> current_offset,
                                                   sections |-> << >>]]
                      IN  IF current_offset < current_offset + r.header.data_size
                          THEN [d EXCEPT !.pc = "mdld"]
                          ELSE MDLDDone(d)
                 ELSE MDLRaise(g, "Exception: Unknown section")

\* MDLDSection.parse, lines 389-405: one iteration of the chunk loop
MDLDSection_step(f, b, metadata_only) ==
    LET r == RIFFSectionHeader_parse(b, f.mdld.current_offset)
        current_offset == f.mdld.current_offset + RIFFHeaderSize
    IN  IF ~r.ok THEN MDLRaise(f, r.error)
        ELSE LET g == [f EXCEPT !.chunks = Append(@, [level |-> "mdld"] @@ r.header),
                                !.mdld.current_offset = current_offset]
             IN  IF r.header.type_id \notin MDLD_section_types
                 THEN MDLRaise(g, "Exception: Unknown section")
                 ELSE LET parse == ShouldParse(metadata_only, r.header.type_id)
                          p == IF parse THEN MDLDChild_parse(r.header, b, current_offset)
                               ELSE [ok |-> TRUE, error |-> "none", items |-> << >>]
                      IN  IF ~p.ok THEN MDLRaise(g, p.error)
                          ELSE LET d == [g EXCEPT
                                           !.mdld.sections =
                                               Append(@, Section(r.header, parse, p.items)),
                                           !.mdld.current_offset =
                                               NextChunkOffset(current_offset, r.header)]
                               IN  IF d.mdld.current_offset
                                        < d.mdld.file_offset + d.mdld.header.data_size
                                   THEN d
                                   ELSE MDLDDone(d)

ParseMDL(m) ==
    /\ Turn(m)
    /\ mdl[m].pc = "start"
    /\ mdl' = [mdl EXCEPT ![m] = MDLFile_parse(mdl[m], mdl_buf)]
    /\ UNCHANGED <<mdl_buf, bglVars, utilVars, dbVars>>

ParseRIFFChunk(m) ==
    /\ Turn(m)
    /\ mdl[m].pc = "riff"
    /\ mdl' = [mdl EXCEPT ![m] = RIFFSection_step(mdl[m], mdl_buf)]
    /\ UNCHANGED <<mdl_buf, bglVars, utilVars, dbVars>>

ParseMDLDChunk(m) ==
    /\ Turn(m)
    /\ mdl[m].pc = "mdld"
    /\ mdl' = [mdl EXCEPT ![m] = MDLDSection_step(mdl[m], mdl_buf, m)]
    /\ UNCHANGED <<mdl_buf, bglVars, utilVars, dbVars>>

(***************************************************************************)
(* Input MDL files                                                         *)
(***************************************************************************)
MaxChunks == 2         \* chunks inside the data chunk

Chunk(type_id, data_size, payload) == type_id \o LE32(data_size) \o payload

\* a material with valid blend and alpha-test enumerations
MaterialBytes == Zeros(100) \o LE32(1) \o LE32(2) \o LE32(8) \o Zeros(8)

\* chunks of the data chunk: well-formed ones, an INDE and a TRAN whose
\* declared length is not a multiple of the stride, a tag of the RIFF level,
\* an unknown tag
ChildChunks ==
    { Chunk(Tag.TEXT, texture_size, << 65, 46, 66 >> \o Zeros(texture_size - 3)),
      Chunk(Tag.TEXT, 2 * texture_size,
            << 67, 46, 68 >> \o Zeros(texture_size - 3) \o << 65 >> \o Zeros(texture_size - 1)),
      Chunk(Tag.MATE, MaterialItemSize, MaterialBytes),
      Chunk(Tag.INDE, 2 * triangle_size, Zeros(2 * triangle_size)),
      Chunk(Tag.INDE, 4, Zeros(4)),
      Chunk(Tag.VERB, 8, Zeros(8)),
      Chunk(Tag.TRAN, matrix_size, Zeros(matrix_size)),
      Chunk(Tag.TRAN, 4, Zeros(4)),
      Chunk(Tag.ANIB, 4, Zeros(4)),
      Chunk(Tag.AMAP, AnimationItemSize, LE32(1) \o LE32(0)),
      Chunk(Tag.AMAP, AnimationItemSize, LE32(7) \o LE32(0)),
      Chunk(Tag.SCEN, 0, << >>),
      Chunk(Tag.MDLH, 8, Zeros(8)),
      Chunk(<< 88, 88, 88, 88 >>, 4, Zeros(4)) }

RECURSIVE ChunkLists(_)
ChunkLists(n) ==
    IF n = 0 THEN { << >> }
    ELSE LET shorter == ChunkLists(n - 1)
         IN  shorter \cup { Append(l, c) : l \in { x \in shorter : Len(x) = n - 1 },
                                         c \in ChildChunks }

\* the chunks that can follow the data chunk at the RIFF level
AfterChunks ==
    { << >>,
      Chunk(Tag.RADI, 4, Zeros(4)),
      Chunk(Tag.MDLN, 2, << 78, 0 >>),
      Chunk(Tag.MDLN, 2, << 0, 0 >>),
      Chunk(Tag.TEXT, 0, << >>),
      Chunk(<< 88, 88, 88, 88 >>, 0, << >>) }

MDLBytes(version, chunks) ==
    Tag.RIFF \o LE32(VersionSize + Len(chunks)) \o version \o chunks

\* a header chunk, the data chunk with the given children, a chunk after it
DataFile(children, after) ==
    LET payload == Concat(children)
    IN  MDLBytes(Tag.MDLX,
                 Chunk(Tag.MDLH, 8, Zeros(8)) \o Chunk(Tag.MDLD, Len(payload), payload)
                 \o after)

DataFiles == { DataFile(l, a) : l \in ChunkLists(MaxChunks), a \in AfterChunks }

Versions ==
    { Tag.MDLX, << 77, 68, 76, 57 >>, << 109, 100, 108, 120 >>,
      << 255, 255, 255, 255 >>, << 195, 169, 76, 88 >>, Zeros(4) }

\* files with the given version tag, whole or cut short
VersionFiles ==
    { SubSeq(f, 1, Len(f) - cut) :
        f \in { MDLBytes(v, Chunk(Tag.MDLH, 8, Zeros(8))
                            \o Chunk(Tag.MDLD, texture_size + 8,
                                     Chunk(Tag.TEXT, texture_size, Zeros(texture_size)))) :
                v \in Versions },
        cut \in {0, 4, 80, 88, 90} }

\* a file without a data chunk
NoDataFile == MDLBytes(Tag.MDLX, Chunk(Tag.MDLH, 8, Zeros(8)) \o Chunk(Tag.RADI, 4, Zeros(4)))

\* files whose last child chunk declares a length that reaches past the end
\* of its parent: a data chunk declared `short` bytes shorter than its only
\* child, and a RIFF chunk that ends inside its second child
ShortParentFiles ==
    { Tag.RIFF \o LE32(VersionSize + 16 + 8 + Len(c) - short) \o Tag.MDLX
        \o Chunk(Tag.MDLH, 8, Zeros(8)) \o Chunk(Tag.MDLD, Len(c) - short, c) :
        c \in { Chunk(Tag.INDE, 2 * triangle_size, Zeros(2 * triangle_size)),
                Chunk(Tag.VERB, 8, Zeros(8)),
                Chunk(Tag.AMAP, AnimationItemSize, LE32(1) \o LE32(0)) },
        short \in {1, 4} }
    \cup
    { Tag.RIFF \o LE32(VersionSize + 16 + inside) \o Tag.MDLX
        \o Chunk(Tag.MDLH, 8, Zeros(8)) \o Chunk(Tag.RADI, 4, Zeros(4)) :
        inside \in {4, 10} }

MDLInputs == DataFiles \cup VersionFiles \cup ShortParentFiles \cup {NoDataFile}

InitMDL ==
    /\ BGLIdle
    /\ mdl_buf \in MDLInputs
    /\ mdl = [m \in BOOLEAN |-> NewMDLFile]
    /\ UtilIdle
    /\ DBIdle

NextMDL ==
    \/ \E m \in BOOLEAN : ParseMDL(m)
    \/ \E m \in BOOLEAN : ParseRIFFChunk(m)
    \/ \E m \in BOOLEAN : ParseMDLDChunk(m)

SpecMDL == InitMDL /\ [][NextMDL]_vars


(***************************************************************************)
(* fs_parse/utils.py: the functions called on their own                    *)
(***************************************************************************)
Returned(v) == [state |-> "returned", error |-> "none", value |-> v]
Raised(e) == [state |-> "raised", error |-> e, value |-> << >>]

\* rawsize, text = read_stringz_word_aligned(buffer)
Call_read_stringz_word_aligned ==
    /\ util_call.fn = "read_stringz_word_aligned"
    /\ util_result = Pending
    /\ LET r == read_stringz_word_aligned(util_call.arg)
       IN  util_result' = IF r.ok THEN Returned(<< r.rawsize, r.text >>) ELSE Raised(r.error)
    /\ UNCHANGED <<util_call, bglVars, mdlVars, dbVars>>

\* text = read_stringz(buffer)
Call_read_stringz ==
    /\ util_call.fn = "read_stringz"
    /\ util_result = Pending
    /\ LET r == read_stringz(util_call.arg)
       IN  util_result' = IF r.ok THEN Returned(<< r.text >>) ELSE Raised(r.error)
    /\ UNCHANGED <<util_call, bglVars, mdlVars, dbVars>>

\* the loop of lines 76-78: shift the fraction left until bit 10 is set
RECURSIVE Normalise(_, _)
Normalise(f, e) ==
    IF (f \div 1024) % 2 = 1 THEN [f |-> f, e |-> e] ELSE Normalise(f * 2, e - 1)

\* (s << 31) | (e << 23) | f, for f below 2^23, as its high and low 16-bit words
Bits32(s, e, f) == << s * 32768 + e * 128 + f \div 65536, f % 65536 >>

\* a subnormal input rebased like a normal one
half_float_2_float_Unnormalised(float16) ==
    LET s == (float16 \div 32768) % 2
        e == (float16 \div 1024) % 32
        f == float16 % 1024
    IN  IF e = 0 /\ f = 0 THEN Bits32(s, 0, 0)
        ELSE IF e = 31 THEN Bits32(s, 255, f * 8192)
        ELSE Bits32(s, e + 112, f * 8192)

\* half_float_2_float, lines 67-90: the result as two 16-bit words
half_float_2_float(float16) ==
    LET s == (float16 \div 32768) % 2
        e == (float16 \div 1024) % 32
        f == float16 % 1024
    IN  IF e = 0 /\ f = 0 THEN Bits32(s, 0, 0)
        ELSE IF e = 0
        THEN LET n == Normalise(f, e)
             IN  Bits32(s, (n.e + 1) + (127 - 15), (n.f % 1024) * 8192)
        ELSE IF e = 31 THEN Bits32(s, 255, f * 8192)
        ELSE Bits32(s, e + (127 - 15), f * 8192)

\* bits = half_float_2_float(float16)
Call_half_float_2_float ==
    /\ util_call.fn = "half_float_2_float"
    /\ util_result = Pending
    /\ util_result' = Returned(half_float_2_float(util_call.arg[1]))
    /\ UNCHANGED <<util_call, bglVars, mdlVars, dbVars>>

\* a conversion without the shift by 180 degrees
parse_longitude_Unshifted(value) == value

\* parse_longitude, line 13: (value * (360.0 / (3 * 0x10000000))) - 180.0.
\* The factor is 15 * 2^-25 and every operation is exact in double
\* precision for values below 2^31, so the result is 15 * 2^-25 times
\* value - 12 * 2^25; it is kept as that integer, in units of 15 * 2^-25
\* degrees (180 degrees are 402653184 units)
parse_longitude(value) == value - 402653184

\* one call of parse_longitude for each raw value of the argument, in turn
Call_parse_longitude ==
    /\ util_call.fn = "parse_longitude"
    /\ util_result.state = "pending"
    /\ LET done == Append(util_result.value,
                          parse_longitude(util_call.arg[Len(util_result.value) + 1]))
       IN  util_result' = IF Len(done) = Len(util_call.arg) THEN Returned(done)
                          ELSE [Pending EXCEPT !.value = done]
    /\ UNCHANGED <<util_call, bglVars, mdlVars, dbVars>>

(***************************************************************************)
(* Arguments of the calls                                                  *)
(***************************************************************************)
MaxStrLen == 4         \* bytes of a string buffer

\* a terminator, two letters, a byte outside ASCII
StrBytes == {0, 65, 66, 233}

RECURSIVE ByteStrings(_)
ByteStrings(n) ==
    IF n = 0 THEN { << >> }
    ELSE LET shorter == ByteStrings(n - 1)
         IN  shorter \cup { Append(x, c) : x \in { y \in shorter : Len(y) = n - 1 },
                                         c \in StrBytes }

StringCalls ==
    [fn : {"read_stringz", "read_stringz_word_aligned"}, arg : ByteStrings(MaxStrLen)]

\* every 16-bit value
HalfFloatCalls == [fn : {"half_float_2_float"}, arg : { << h >> : h \in 0..65535 }]

\* raw longitudes at both ends and in the middle of the range 0 .. 3 * 2^28 - 1,
\* and the first value beyond it
LongitudeRaws ==
    {0, 1, 2, 402653183, 402653184, 402653185, 805306366, 805306367, 805306368}

LongitudeCalls == [fn : {"parse_longitude"}, arg : LongitudeRaws \X LongitudeRaws]

UtilCalls == StringCalls \cup HalfFloatCalls \cup LongitudeCalls

InitUtils ==
    /\ BGLIdle
    /\ MDLIdle
    /\ util_call \in UtilCalls
    /\ util_result = Pending
    /\ DBIdle

NextUtils ==
    \/ Call_read_stringz_word_aligned
    \/ Call_read_stringz
    \/ Call_half_float_2_float
    \/ Call_parse_longitude

SpecUtils == InitUtils /\ [][NextUtils]_vars

(***************************************************************************)
(* Every decoder run to its end: a file decode or a call of a string       *)
(* reader, once started, is the only thing its thread does until it        *)
(* returns or raises, so the steps of the decode are weakly fair.          *)
(***************************************************************************)
\* the files of the decodes run to their end: records of declared size 0,
\* declared data sizes short of and beyond the records, files of three
\* sections with model-data slots, tails; chunk lists one chunk shorter than
\* those of DataFiles, parents shorter than their children, truncated files
DecodeBGLInputs ==
    ZeroSizeFiles \cup SizedFiles \cup WideTailFiles \cup TruncatedTailFiles
    \cup { MixedFile(st, st, st, n) : st \in MixedStreams, n \in 0..MaxRecords }

DecodeMDLInputs ==
    { DataFile(l, a) : l \in ChunkLists(MaxChunks - 1), a \in AfterChunks }
    \cup ShortParentFiles \cup VersionFiles \cup {NoDataFile}

InitDecode ==
    \/ Init /\ buf \in DecodeBGLInputs
    \/ InitMDL /\ mdl_buf \in DecodeMDLInputs
    \/ /\ BGLIdle
       /\ MDLIdle
       /\ DBIdle
       /\ util_call \in StringCalls
       /\ util_result = Pending

NextDecode ==
    \/ ParseHeader
    \/ ParseSection
    \/ ParseSubSection
    \/ ParseSceneryRecord
    \/ ParseModelDataRecord
    \/ mdl # << >> /\ \E m \in BOOLEAN : ParseMDL(m)
    \/ mdl # << >> /\ \E m \in BOOLEAN : ParseRIFFChunk(m)
    \/ mdl # << >> /\ \E m \in BOOLEAN : ParseMDLDChunk(m)
    \/ Call_read_stringz_word_aligned
    \/ Call_read_stringz

SpecDecode == InitDecode /\ [][NextDecode]_vars /\ WF_vars(NextDecode)

(***************************************************************************)
(* fs_parse/bgl/helpers/model_db.py: ModelsDB and its cache file.  A path  *)
(* is a sequence of characters, a dict is a function, a list a sequence.   *)
(***************************************************************************)
MaxScans == 2          \* calls of scan

Folder == << "d" >>
FileA == << "d", "/", "a" >>
FileB == << "d", "/", "b" >>

\* p.startswith(prefix)
startswith(p, prefix) ==
    Len(prefix) <= Len(p) /\ SubSeq(p, 1, Len(prefix)) = prefix

Elements(l) == { l[i] : i \in 1..Len(l) }

\* list(set(l)): the distinct elements of l, in an order the interpreter picks
list_set(l) ==
    { q \in [1..Cardinality(Elements(l)) -> Elements(l)] : Elements(q) = Elements(l) }

\* d.get(k, [])
dict_get(d, k) == IF k \in DOMAIN d THEN d[k] ELSE << >>

\* d[k] = v
dict_set(d, k, v) == [x \in DOMAIN d \cup {k} |-> IF x = k THEN v ELSE d[x]]

\* ModelsDB.save: json.dumps with sort_keys=True writes the four members in
\* the order of their keys
save(d) ==
    << << "file_2_placements", d.file_2_placements >>,
       << "file_2_uuids", d.file_2_uuids >>,
       << "placement_2_files", d.placement_2_files >>,
       << "uuid_2_files", d.uuid_2_files >> >>

\* json.loads: the object whose members the document lists
json_loads(document) ==
    [k \in { document[i][1] : i \in 1..Len(document) } |->
        document[CHOOSE i \in 1..Len(document) : document[i][1] = k][2]]

\* ModelsDB.load, lines 121-132
load(d, file) ==
    IF file = NoFile THEN [d EXCEPT !.error = "FileNotFoundError"]
    ELSE LET file_contents == json_loads(file)
         IN  IF \E field \in {"file_2_uuids", "uuid_2_files", "placement_2_files"} :
                    field \notin DOMAIN file_contents
             THEN [d EXCEPT !.error = "Exception: Missing field"]
             ELSE LET e == [d EXCEPT !.file_2_uuids = file_contents["file_2_uuids"],
                                     !.uuid_2_files = file_contents["uuid_2_files"],
                                     !.placement_2_files =
                                         file_contents["placement_2_files"]]
                  IN  IF "_file_2_placements" \in DOMAIN file_contents
                      THEN [e EXCEPT !.file_2_placements =
                                         file_contents["_file_2_placements"]]
                      ELSE [e EXCEPT !.error = "KeyError: '_file_2_placements'"]

\* scan, lines 91-92: the definitions of one file, in order
RECURSIVE scan_models(_, _, _)
scan_models(d, bgl_file_path, object_guids) ==
    IF object_guids = << >> THEN d
    ELSE LET guid == Head(object_guids)
         IN  scan_models(
               [d EXCEPT !.uuid_2_files =
                    dict_set(@, guid, Append(dict_get(@, guid), bgl_file_path))],
               bgl_file_path, Tail(object_guids))

\* scan, lines 96-97: the placements of one file, in order; every list(set())
\* leaves an order open, so the result is a set of possible objects
RECURSIVE scan_placements(_, _, _)
scan_placements(d, bgl_file_path, placement_guids) ==
    IF placement_guids = << >> THEN {d}
    ELSE LET guid == Head(placement_guids)
         IN  UNION { scan_placements(
                       [d EXCEPT !.placement_2_files = dict_set(@, guid, q)],
                       bgl_file_path, Tail(placement_guids)) :
                     q \in list_set(Append(dict_get(d.placement_2_files, guid),
                                           bgl_file_path)) }

\* scan, lines 87-97: one file of bgl_files_list with what get_models and
\* get_placements yield for it
scan_file(d, f) ==
    LET d1 == IF f.object_guids = << >> THEN d
              ELSE scan_models(
                     [d EXCEPT !.file_2_uuids = dict_set(@, f.path, f.object_guids)],
                     f.path, f.object_guids)
    IN  IF f.placement_guids = << >> THEN {d1}
        ELSE UNION { scan_placements(
                       [d1 EXCEPT !.file_2_placements = dict_set(@, f.path, q)],
                       f.path, f.placement_guids) :
                     q \in list_set(f.placement_guids) }

RECURSIVE scan_files(_, _)
scan_files(d, bgl_files_list) ==
    IF bgl_files_list = << >> THEN {d}
    ELSE UNION { scan_files(e, Tail(bgl_files_list)) :
                 e \in scan_file(d, Head(bgl_files_list)) }

\* what the accessors of a decoded file yield, as strings
ScanResults ==
    { [object_guids |-> << >>, placement_guids |-> << "v" >>],
      [object_guids |-> << "u" >>, placement_guids |-> << >>],
      [object_guids |-> << "u", "v" >>, placement_guids |-> << "u", "v", "u" >>] }

\* search_files(path, "*.bgl") with the decode of each file found: the files
\* below the folder; nothing below a path that is a file
Found(path) ==
    IF path = Folder
    THEN { << >> }
         \cup { << [path |-> FileA] @@ r >> : r \in ScanResults }
         \cup { << [path |-> FileA] @@ r1, [path |-> FileB] @@ r2 >> :
                r1 \in ScanResults, r2 \in ScanResults }
    ELSE { << >> }

\* ModelsDB(cache_path, include_stock=False, include_addon=False,
\* force_empty_cache), lines 21-29; an exception leaves no object
New_ModelsDB(force_empty_cache) ==
    /\ models_db.state \in {"none", "failed"}
    /\ LET d == [NoDB EXCEPT !.state = "ready"]
       IN  IF force_empty_cache \/ cache = NoFile
           THEN models_db' = d /\ cache' = save(d)
           ELSE /\ models_db' = LET l == load(d, cache)
                         IN  IF l.error = "none" THEN l
                             ELSE [NoDB EXCEPT !.state = "failed", !.error = l.error]
                /\ cache' = cache
    /\ UNCHANGED <<scans, bglVars, mdlVars, utilVars>>

\* db.scan(path, force_scan=force_scan), lines 66-106
Call_scan(path, force_scan) ==
    /\ models_db.state = "ready"
    /\ scans < MaxScans
    /\ scans' = scans + 1
    /\ IF ~force_scan /\ \E p \in DOMAIN models_db.file_2_uuids : startswith(p, path)
       THEN models_db' = [models_db EXCEPT !.error = "none"] /\ cache' = cache
       ELSE \E bgl_files_list \in Found(path) :
              /\ models_db' \in scan_files([models_db EXCEPT !.error = "none"], bgl_files_list)
              /\ cache' = save(models_db')
    /\ UNCHANGED <<bglVars, mdlVars, utilVars>>

\* db.save()
Call_save ==
    /\ models_db.state = "ready"
    /\ models_db' = [models_db EXCEPT !.error = "none"]
    /\ cache' = save(models_db)
    /\ UNCHANGED <<scans, bglVars, mdlVars, utilVars>>

\* db.load()
Call_load ==
    /\ models_db.state = "ready"
    /\ models_db' = load([models_db EXCEPT !.error = "none"], cache)
    /\ UNCHANGED <<cache, scans, bglVars, mdlVars, utilVars>>

\* db.clear(), lines 134-139
Call_clear ==
    /\ models_db.state = "ready"
    /\ models_db' = [NoDB EXCEPT !.state = "ready"]
    /\ UNCHANGED <<cache, scans, bglVars, mdlVars, utilVars>>

\* the object goes away with its process; the cache file stays
Drop_ModelsDB ==
    /\ models_db.state = "ready"
    /\ models_db' = NoDB
    /\ UNCHANGED <<cache, scans, bglVars, mdlVars, utilVars>>

InitDB ==
    /\ BGLIdle
    /\ MDLIdle
    /\ UtilIdle
    /\ DBIdle

NextDB ==
    \/ \E force_empty_cache \in BOOLEAN : New_ModelsDB(force_empty_cache)
    \/ \E path \in {Folder, FileA}, force_scan \in BOOLEAN : Call_scan(path, force_scan)
    \/ Call_save
    \/ Call_load
    \/ Call_clear
    \/ Drop_ModelsDB

SpecDB == InitDB /\ [][NextDB]_vars

(***************************************************************************)
(* Properties of BGLFile.parse (specification Spec)                        *)
(***************************************************************************)
\* every subsection decoded so far: the one in progress, those of the
\* section in progress, those of the finished sections
AllSubsections ==
    {subsection}
    \cup { section.subsections[j] : j \in 1..Len(section.subsections) }
    \cup UNION { { sections[i].subsections[j] : j \in 1..Len(sections[i].subsections) } :
                 i \in 1..Len(sections) }

\* the record lists of the scenery-object subsections
SceneryStreams == { s.records : s \in { x \in AllSubsections : x.cls = "SceneryObject" } }

\* the offset after record r, from the bytes of the file: the size field of
\* its header plus, when it has a tail, the two delimiter sizes and the data
\* size of the tail
OffsetAfter(r) ==
    r.offset + U16(buf, r.offset + 2)
    + (IF r.attached_object.present
       THEN LET s == r.data_offset + 20
                e == s + U16(buf, s + 2) + U16(buf, s + 6)
            IN  U16(buf, s + 2) + U16(buf, s + 6) + U16(buf, e + 2)
       ELSE 0)

\* C1: in a scenery-object subsection the record after a record at offset o
\* is read at o plus the record's total size, which for a library placement
\* is the size field of its header plus, when a tail is present, the tail's
\* start delimiter size, data size and closing delimiter size; the offset
\* the loop holds after a record is that offset too.
C1_NextRecordAtTotalSize ==
    /\ \A recs \in SceneryStreams :
         \A k \in 1..(Len(recs) - 1) : recs[k + 1].offset = OffsetAfter(recs[k])
    /\ (pc \in {"record", "failed"} /\ subsection.cls = "SceneryObject"
        /\ Len(subsection.records) > 0)
       => loop.current_record_offset
            = OffsetAfter(subsection.records[Len(subsection.records)])

\* a library placement with a tail was followed by a record decoded right
\* after the tail
C1_Witness ==
    \E recs \in SceneryStreams :
      /\ Len(recs) >= 2
      /\ recs[1].cls \in {"LibraryObjectRecord", "FS9LibraryObjectRecord"}
      /\ recs[1].attached_object.present
      /\ recs[2].offset = recs[1].offset + recs[1].size
                          + AttachedObjectData_total_size(recs[1].attached_object)
      /\ recs[2].offset > recs[1].offset + recs[1].size

\* the fifteen tags of the registry
C2_KnownTags == {1, 2, 3, 4, 5, 7, 8, 10, 11, 12, 13, 14, 16, 17, 18}

\* the record about to be decoded carries a tag outside the registry
C2_UnknownTagNext ==
    /\ pc = "record"
    /\ CanUnpack(buf, loop.current_record_offset, 4)
    /\ U16(buf, loop.current_record_offset) \notin C2_KnownTags

\* C2: when the tag of the record about to be decoded is not one of the
\* fifteen registered tags the subsection decode fails with the unknown
\* scenery object error: the record is not skipped or retried, no record is
\* appended, nothing decoded changes, and the failed file decode takes no
\* further step: whatever is called on the file afterwards, what was decoded
\* stays as the failure left it.
C2_UnknownTagFails ==
    [][ /\ C2_UnknownTagNext
          => /\ pc' = "failed"
             /\ error' = "Exception: UNKNOWN scenery object type"
             /\ UNCHANGED <<sections, section, subsection, loop>>
        /\ pc = "failed"
          => UNCHANGED <<pc, error, header, sections, section, subsection, loop>> ]_vars

\* an unknown tag after one decoded record stopped the file decode
C2_Witness ==
    /\ pc = "failed"
    /\ error = "Exception: UNKNOWN scenery object type"
    /\ Len(subsection.records) = 1
    /\ U16(buf, loop.current_record_offset) \notin C2_KnownTags
    /\ sections = << >>

\* the offset of the tail of the library placement at offset o
C3_TailOffset(o) == o + (IF U16(buf, o) = 11 THEN 44 ELSE 28) + 20

\* the offset of the closing delimiter of that tail
C3_ClosingOffset(o) ==
    C3_TailOffset(o) + U16(buf, C3_TailOffset(o) + 2) + U16(buf, C3_TailOffset(o) + 6)

\* the record at offset o is a library placement followed by a tail whose
\* closing delimiter lies in the file
C3_TailAt(o) ==
    /\ CanUnpack(buf, o, 4)
    /\ U16(buf, o) \in {2, 11}
    /\ CanUnpack(buf, C3_TailOffset(o), 8)
    /\ U16(buf, C3_TailOffset(o)) = (IF U16(buf, o) = 11 THEN 4098 ELSE 4096)
    /\ CanUnpack(buf, C3_ClosingOffset(o), 4)

\* the closing delimiter id of the family of the record at offset o
C3_FamilyClosingId(o) == IF U16(buf, o) = 11 THEN 4099 ELSE 4097

\* the record at offset o has a tail closed with another id than its
\* family's
C3_MismatchAt(o) ==
    /\ C3_TailAt(o)
    /\ U16(buf, C3_ClosingOffset(o)) # C3_FamilyClosingId(o)

\* C3: decoding a library placement whose tail is closed with an id other
\* than the closing delimiter id of its family fails: the placement is not
\* appended to the records and the file decode is aborted with nothing
\* else decoded.
C3_ClosingMismatchFails ==
    [][ (pc = "record" /\ C3_MismatchAt(loop.current_record_offset))
        => /\ pc' = "failed"
           /\ error' # "none"
           /\ UNCHANGED <<sections, section, subsection, loop>> ]_vars

\* a tail with a wrong closing id stopped the decode at its placement
C3_Witness ==
    /\ pc = "failed"
    /\ error = "Exception: attachedObject closing delimiter id"
    /\ C3_MismatchAt(loop.current_record_offset)
    /\ subsection.records = << >>

\* the decoded records that carry a tail
C4_Tailed ==
    UNION { { recs[k] : k \in { n \in 1..Len(recs) : recs[n].attached_object.present } } :
            recs \in SceneryStreams }

C5_BadMagicFails ==
    (pc # "header" /\ CanUnpack(buf, 0, 56)
     /\ (U32(buf, 0) # 428999169 \/ U32(buf, 16) # 134551555))
    => (pc = "failed" /\ sections = << >> /\ section = NoSection)

\* C6: whatever the 64-bit timestamp of a complete header, decoding the
\* header does not raise and yields a date counted from 1601 or from 1970;
\* the 1970 date is at most datetime.max and is taken only when the 1601
\* date is out of range (up to the rounding of the division).
C6_TimestampDecodes ==
    (pc # "header" /\ CanUnpack(buf, 0, 56))
    => /\ error # "OverflowError"
       /\ header.epoch \in {1601, 1970}
       /\ Len(header.filetime) = 7
       /\ header.epoch = 1601
            => ~LimbsGT(header.filetime, << 0, 265, 46, 774, 400, 0, 127 >>)
       /\ header.epoch = 1970
            => /\ ~LimbsGT(header.filetime, << 0, 253, 402, 300, 799, 999, 999 >>)
               /\ LimbsGT(DivSmall(U64Limbs(buf, 8), 1000, 10)[1],
                          << 0, 265, 46, 774, 399, 999, 871 >>)

\* the timestamp 2^64 - 1 was decoded through the fallback
C6_Witness ==
    /\ pc # "header"
    /\ CanUnpack(buf, 0, 56)
    /\ SubSeq(buf, 9, 16) = << 255, 255, 255, 255, 255, 255, 255, 255 >>
    /\ header.epoch = 1970
    /\ error = "none"

\* C7 as the specification states it: a section whose subsection table
\* (start + count * stride, stride 16 or 20) ends beyond the buffer is not
\* decoded: no such section is ever appended to the file's sections.
C7_TableBeyondBufferFails ==
    \A i \in 1..Len(sections) :
      sections[i].subsection_class # "None"
      => sections[i].sections_start_offset
           + sections[i].subsections_count * sections[i].subsection_size_value
         <= Len(buf)

\* C8 as the specification states it: a section of type NONE or COPYRIGHT
\* decodes without error whatever its subsection count.
C8_NoDecoderSectionDecodes ==
    ~(/\ pc = "failed"
      /\ section.section_type \in {"NONE", "COPYRIGHT"}
      /\ section.subsections_count > 0)

\* the records of the model-data subsections decoded so far
ModelRecords ==
    UNION { { s.records[k] : k \in 1..Len(s.records) } :
            s \in { x \in AllSubsections : x.cls = "ModelData" } }

\* C16 as the specification states it: a model-data record whose byte range
\* [mdl_offset, mdl_offset + mdl_length) is not inside the buffer is not
\* decoded, and a decoded record carries a payload of exactly mdl_length
\* bytes.
C16_PayloadInsideBuffer ==
    \A r \in ModelRecords :
        /\ r.mdl_file_offset + r.mdl_file_length <= Len(buf)
        /\ Len(r.mdl_data) = r.mdl_file_length

\* the records of the subsections of the sections of one type, in section,
\* subsection, record order
RECURSIVE C18_Records(_, _, _)
C18_Records(type, i, j) ==
    IF i > Len(sections) THEN << >>
    ELSE IF sections[i].section_type # type \/ j > Len(sections[i].subsections)
    THEN C18_Records(type, i + 1, 1)
    ELSE sections[i].subsections[j].records \o C18_Records(type, i, j + 1)

\* the record identifier in the file is one of the two library-object
\* identifiers (0x02 and 0x0B)
C18_IsPlacement(r) == U16(buf, r.offset) \in {2, 11}

\* C18: after a successful decode get_placements returns the library-object
\* records (FS9 and FSX) of the SCENERYOBJECT sections and get_models the
\* records of the MODELDATA sections, in section, subsection, record order,
\* and a query leaves the decoded graph as it was.
C18_QueriesFlatten ==
    /\ [](pc = "done" =>
            /\ query.fn = "get_placements"
                 => /\ query.error = "none"
                    /\ query.value
                         = SelectSeq(C18_Records("SCENERYOBJECT", 1, 1), C18_IsPlacement)
            /\ query.fn = "get_models"
                 => /\ query.error = "none"
                    /\ query.value = C18_Records("MODELDATA", 1, 1))
    /\ [][query' # query
            => UNCHANGED <<buf, pc, error, header, sections, section, subsection, loop>>]_vars

\* placements were returned from two sections, of both classes and with
\* other records left out
C18_Witness ==
    /\ pc = "done"
    /\ query.fn = "get_placements"
    /\ Len(sections) = 3
    /\ \E k \in 1..Len(query.value) : query.value[k].cls = "FS9LibraryObjectRecord"
    /\ \E k \in 1..Len(query.value) : query.value[k].cls = "LibraryObjectRecord"
    /\ Len(query.value) < Len(C18_Records("SCENERYOBJECT", 1, 1))
    /\ query.value[Len(query.value)] \in
         { sections[3].subsections[1].records[k] :
             k \in 1..Len(sections[3].subsections[1].records) }

\* models were returned from a file that also holds scenery objects
C18_WitnessModels ==
    /\ pc = "done"
    /\ query.fn = "get_models"
    /\ Len(query.value) = 2
    /\ Len(C18_Records("SCENERYOBJECT", 1, 1)) > 0

\* the scenery-object subsections whose decode has returned
C21_Decoded ==
    { x \in AllSubsections \ {subsection} : x.cls = "SceneryObject" }

\* the bytes consumed by the first n records of recs: the sum of their total
\* sizes, from the bytes of the file
RECURSIVE C21_Consumed(_, _)
C21_Consumed(recs, n) ==
    IF n = 0 THEN 0
    ELSE C21_Consumed(recs, n - 1) + (OffsetAfter(recs[n]) - recs[n].offset)

\* C21: a decoded scenery-object subsection holds records_number records,
\* record k read at first_record_offset plus the total sizes of the records
\* before it, whatever the subsection_data_size of its header says.
C21_CountAndSizesDrive ==
    \A s \in C21_Decoded :
        /\ Len(s.records) = s.header.records_number
        /\ \A k \in 1..Len(s.records) :
             s.records[k].offset
               = s.header.first_record_file_offset + C21_Consumed(s.records, k - 1)

\* a decoded subsection whose second record starts at or after the end of
\* the declared data size
C21_Witness ==
    /\ pc = "done"
    /\ \E s \in C21_Decoded :
         /\ Len(s.records) = 2
         /\ s.header.subsection_data_size < 28
         /\ s.records[2].offset
              >= s.header.first_record_file_offset + s.header.subsection_data_size

\* the library-object placements decoded so far, by the identifier in the file
C22_Placements ==
    { r \in UNION { { recs[k] : k \in 1..Len(recs) } : recs \in SceneryStreams } :
        U16(buf, r.offset) \in {2, 11} }

\* the offset right after the object-info block of the placement r: the end
\* of its header (28 bytes, 44 with the FSX instance id) plus 20 bytes
C22_PeekOffset(r) == r.offset + (IF U16(buf, r.offset) = 11 THEN 44 ELSE 28) + 20

\* the attached-object tag of the family of r
C22_Tag(r) == IF U16(buf, r.offset) = 11 THEN 4098 ELSE 4096

\* C22: a decoded library-object placement has an attached-object tail
\* exactly when the 16-bit value right after its object-info block is the
\* attached-object tag of its family (0x1000 for FS9, 0x1002 for FSX); when
\* the value differs or the buffer ends at that position it has no tail and
\* its total size is the size field of its header.
C22_TailIffTag ==
    \A r \in C22_Placements :
        /\ r.attached_object.present
             <=> (/\ C22_PeekOffset(r) + 2 <= Len(buf)
                  /\ U16(buf, C22_PeekOffset(r)) = C22_Tag(r))
        /\ C22_PeekOffset(r) = Len(buf) => ~r.attached_object.present
        /\ ~r.attached_object.present => total_size(r) = U16(buf, r.offset + 2)

\* a file decoded with a first placement that has a tail and a last FS9
\* placement at whose object-info end the buffer ends
C22_Witness ==
    /\ pc = "done"
    /\ \E r1 \in C22_Placements, r2 \in C22_Placements :
         /\ r1.attached_object.present
         /\ U16(buf, C22_PeekOffset(r1)) = C22_Tag(r1)
         /\ ~r2.attached_object.present
         /\ C22_PeekOffset(r2) = Len(buf)

\* a placement decoded without a tail because another value follows it
C22_WitnessOtherValue ==
    \E r \in C22_Placements :
        /\ ~r.attached_object.present
        /\ C22_PeekOffset(r) + 2 <= Len(buf)
        /\ U16(buf, C22_PeekOffset(r)) # C22_Tag(r)

\* the record at offset o is a library placement with a valid header,
\* followed by the attached-object tag of its family and the whole fixed
\* prefix of a tail (28 bytes for FS9, 48 for FSX)
C23_TailPrefixAt(o) ==
    /\ CanUnpack(buf, o, 4)
    /\ U16(buf, o) \in {2, 11}
    /\ CanUnpack(buf, C3_TailOffset(o), IF U16(buf, o) = 11 THEN 48 ELSE 28)
    /\ U16(buf, o + 24) \in 0..5
    /\ U16(buf, C3_TailOffset(o)) = (IF U16(buf, o) = 11 THEN 4098 ELSE 4096)

\* the type id of the tail of the placement at offset o, from the file
C23_TypeId(o) == U16(buf, C3_TailOffset(o) + 4)

\* C23: the payload of an attached-object tail follows from its type id
\* alone: 0x02 or 0x0B give a LibraryObject, 0x08 or 0x11 a Beacon, and any
\* other type id fails the decode with the unknown-attached-type error,
\* whatever the name and the closing delimiter are, even when they are
\* missing.
C23_PayloadByTypeId ==
    /\ [](\A r \in C22_Placements :
            r.attached_object.present
            => /\ C23_TypeId(r.offset) \in {2, 11, 8, 17}
               /\ r.attached_object.obj_data
                    = (IF C23_TypeId(r.offset) \in {2, 11} THEN "LibraryObject"
                       ELSE "Beacon"))
    /\ [][ (pc = "record" /\ C23_TailPrefixAt(loop.current_record_offset))
           => IF C23_TypeId(loop.current_record_offset) \in {2, 11, 8, 17}
              THEN error' # "Exception: Unknown attached object type"
              ELSE /\ pc' = "failed"
                   /\ error' = "Exception: Unknown attached object type" ]_vars

\* a tail of an unknown type stopped the decode although the file ends
\* before its name and its closing delimiter
C23_Witness ==
    /\ pc = "failed"
    /\ error = "Exception: Unknown attached object type"
    /\ C23_TailPrefixAt(loop.current_record_offset)
    /\ C23_TypeId(loop.current_record_offset) = 6
    /\ Len(buf) = C3_TailOffset(loop.current_record_offset)
                  + (IF U16(buf, loop.current_record_offset) = 11 THEN 48 ELSE 28)

\* tails of a beacon type and of a library-object type were decoded
C23_WitnessPayloads ==
    /\ \E r \in C22_Placements :
         r.attached_object.present /\ r.attached_object.obj_data = "Beacon"
                                   /\ C23_TypeId(r.offset) = 17

\* the placements decoded with a tail
C24_Tailed == { r \in C22_Placements : r.attached_object.present }

\* the bytes before the first zero byte at or after offset o
RECURSIVE C24_TextAt(_)
C24_TextAt(o) == IF buf[o + 1] = 0 THEN << >> ELSE << buf[o + 1] >> \o C24_TextAt(o + 1)

\* C24 as the specification states it: for a tail that starts at offset s
\* the name is read at s + name_offset and the closing delimiter at
\* s + declared attached data size.
C24_OffsetsFromTailStart ==
    \A r \in C24_Tailed :
        LET s == C22_PeekOffset(r)
        IN  /\ r.attached_object.name_offset = s + U16(buf, s + 8)
            /\ r.attached_object.end_delimiter_offset = s + U16(buf, s + 6)

\* C24: for a tail that starts at offset s and declares a start delimiter
\* size d (the second 16-bit field of its prefix), the name is read at
\* s + d + name_offset and the closing delimiter at s + d + declared
\* attached data size: the name and the closing id decoded are the bytes
\* found there.
C24_OffsetsFromDelimiterEnd ==
    /\ [](\A r \in C24_Tailed :
            LET s == C22_PeekOffset(r)
                d == U16(buf, s + 2)
            IN  /\ r.attached_object.name_offset = s + d + U16(buf, s + 8)
                /\ r.attached_object.end_delimiter_offset = s + d + U16(buf, s + 6)
                /\ r.attached_object.attach_point_name
                     = C24_TextAt(s + d + U16(buf, s + 8))
                /\ r.attached_object.closing_delimiter_id
                     = U16(buf, s + d + U16(buf, s + 6)))
    /\ [][ (/\ pc = "record"
            /\ C3_TailAt(loop.current_record_offset)
            /\ ~C3_MismatchAt(loop.current_record_offset))
           => error' # "Exception: attachedObject closing delimiter id" ]_vars

\* a tail with a start delimiter of 6 bytes was decoded, its name read 6
\* bytes further than its name_offset
C24_Witness ==
    \E r \in C24_Tailed :
        /\ U16(buf, C22_PeekOffset(r) + 2) = 6
        /\ r.attached_object.attach_point_name = << 66 >>
        /\ r.attached_object.name_offset
             = C22_PeekOffset(r) + 6 + U16(buf, C22_PeekOffset(r) + 8)

\* the effect placements decoded so far
C25_Effects ==
    { r \in UNION { { recs[k] : k \in 1..Len(recs) } : recs \in SceneryStreams } :
        U16(buf, r.offset) \in {4, 13} }

\* C25 as the specification states it: the parameter string of an effect
\* placement is read from a window of declared size minus the fixed prefix
\* (record header plus the 80-byte name slot) bytes, so it lies between the
\* end of the name slot and the end of the record, and a record with no
\* parameter bytes has an empty parameter string.
C25_ParamsInsideRecord ==
    \A r \in C25_Effects :
        LET prefix == (IF U16(buf, r.offset) = 13 THEN 44 ELSE 28) + 80
            size == U16(buf, r.offset + 2)
        IN  /\ r.data.params_offset = r.offset + prefix
            /\ r.data.params_window = size - prefix
            /\ r.data.params_offset + Len(r.data.effect_params) <= r.offset + size
            /\ size = prefix => r.data.effect_params = << >>

(***************************************************************************)
(* Properties of ModelData.parse (specification SpecModelData)             *)
(***************************************************************************)
\* the offset of slot i of the subsection being decoded, from its header
C17_SlotAt(i) == subsection.header.first_record_file_offset + i * 24

\* the 24 bytes of slot i lie inside the buffer
C17_SlotDecodes(i) == C17_SlotAt(i) + 24 <= Len(buf)

\* the offsets of the slots among the first n that decode, in slot order
RECURSIVE C17_Decoded(_)
C17_Decoded(n) ==
    IF n = 0 THEN << >>
    ELSE IF C17_SlotDecodes(n - 1) THEN Append(C17_Decoded(n - 1), C17_SlotAt(n - 1))
    ELSE C17_Decoded(n - 1)

\* the offsets the records of the subsection were decoded at
C17_RecordOffsets ==
    [k \in 1..Len(subsection.records) |-> subsection.records[k].offset]

\* C17: slot i of a model-data subsection is decoded at first_record_offset
\* + i * 24 whatever happened to the earlier slots; with skip_invalid set a
\* failing slot is left out, every slot is attempted and the records are the
\* decodable slots in slot order; with skip_invalid cleared the first failing
\* slot ends the decode with its error.
C17_SlotsAtFixedStride ==
    /\ (pc \in {"slot", "returned", "failed"} /\ loop.k > 0)
         => loop.current_record_offset = C17_SlotAt(loop.k - 1)
    /\ pc = "slot" => C17_RecordOffsets = C17_Decoded(loop.k)
    /\ (pc = "returned" /\ subsection.skip_invalid)
         => /\ loop.k = subsection.header.records_number
            /\ C17_RecordOffsets = C17_Decoded(subsection.header.records_number)
    /\ (pc = "returned" /\ ~subsection.skip_invalid)
         => /\ loop.k = subsection.header.records_number
            /\ \A i \in 0..(loop.k - 1) : C17_SlotDecodes(i)
            /\ C17_RecordOffsets = C17_Decoded(loop.k)
    /\ (pc = "failed" /\ loop.k > 0)
         => /\ ~subsection.skip_invalid
            /\ error = "struct.error"
            /\ ~C17_SlotDecodes(loop.k - 1)
            /\ \A i \in 0..(loop.k - 2) : C17_SlotDecodes(i)
            /\ C17_RecordOffsets = C17_Decoded(loop.k - 1)

\* a subsection of two slots decoded with skip_invalid set: the first slot
\* fails, the second is still attempted
C17_Witness ==
    /\ pc = "returned"
    /\ subsection.skip_invalid
    /\ loop.k = 2
    /\ ~C17_SlotDecodes(0)
    /\ loop.current_record_offset = C17_SlotAt(1)

\* the first slot decodes and the second is left out
C17_WitnessLeftOut ==
    /\ pc = "returned"
    /\ subsection.skip_invalid
    /\ loop.k = 2
    /\ Len(subsection.records) = 1

\* with skip_invalid cleared the second slot ends the decode
C17_WitnessAbort ==
    /\ pc = "failed"
    /\ ~subsection.skip_invalid
    /\ loop.k = 2
    /\ Len(subsection.records) = 1

(***************************************************************************)
(* Properties of MDLFile.parse (specification SpecMDL)                     *)
(***************************************************************************)
\* C9 as the specification states it: a buffer whose version tag is not
\* "MDLX" fails with the unsupported-version error before any chunk header
\* is read, and no chunk attribute is set.
C9_UnsupportedVersionFails ==
    \A m \in BOOLEAN :
      (mdl[m].pc # "start" /\ CanUnpack(mdl_buf, 0, 12)
       /\ SubSeq(mdl_buf, 9, 12) # << 77, 68, 76, 88 >>)
      => /\ mdl[m].pc = "failed"
         /\ mdl[m].error = "UnsupportedMDLVersionException"
         /\ mdl[m].chunks = << >>
         /\ mdl[m].sections = << >>

\* the tags whose payload the metadata-only mode leaves aside
C10_Skipped == { << 73, 78, 68, 69 >>, << 86, 69, 82, 66 >>,
                 << 84, 82, 65, 78 >>, << 65, 78, 73, 66 >> }

\* the header fields of a decoded chunk
C10_Header(s) ==
    [type_id |-> s.type_id, header_offset |-> s.header_offset, data_size |-> s.data_size]

\* the full decode failed while decoding the payload of a skipped tag
C10_FullFailedInSkipped ==
    /\ mdl[FALSE].pc = "failed"
    /\ mdl[FALSE].error = "struct.error"
    /\ Len(mdl[FALSE].chunks) > 0
    /\ mdl[FALSE].chunks[Len(mdl[FALSE].chunks)].level = "mdld"
    /\ mdl[FALSE].chunks[Len(mdl[FALSE].chunks)].type_id \in C10_Skipped
    /\ Len(mdl[FALSE].mdld.sections)
         < Cardinality({ k \in 1..Len(mdl[FALSE].chunks) :
                           mdl[FALSE].chunks[k].level = "mdld" })

\* C10: in metadata-only mode the INDE, VERB, TRAN and ANIB chunks of the
\* data chunk are left undecoded with empty item lists, each chunk header
\* of the data chunk is read 8 plus the declared length after the one
\* before, the chunk headers read are those of the full decode of the same
\* buffer at the same offsets, and every other chunk is decoded as the full
\* decode does (with the same outcome, unless the full decode failed inside
\* the payload of a skipped tag).
C10_MetadataOnlySkips ==
    LET full == mdl[FALSE]
        meta == mdl[TRUE]
        common == Min(Len(full.mdld.sections), Len(meta.mdld.sections))
    IN  /\ \A k \in 1..Len(meta.mdld.sections) :
             meta.mdld.sections[k].type_id \in C10_Skipped
             => /\ ~meta.mdld.sections[k].parsed
                /\ meta.mdld.sections[k].items = << >>
        /\ \A k \in 1..(Len(meta.chunks) - 1) :
             (meta.chunks[k].level = "mdld" /\ meta.chunks[k + 1].level = "mdld")
             => meta.chunks[k + 1].offset
                  = meta.chunks[k].offset + 8 + meta.chunks[k].data_size
        /\ \A k \in 1..Min(Len(full.chunks), Len(meta.chunks)) :
             meta.chunks[k] = full.chunks[k]
        /\ \A k \in 1..common :
             /\ C10_Header(meta.mdld.sections[k]) = C10_Header(full.mdld.sections[k])
             /\ meta.mdld.sections[k].type_id \notin C10_Skipped
                => meta.mdld.sections[k] = full.mdld.sections[k]
        /\ \A k \in 1..Min(Len(full.sections), Len(meta.sections)) :
             /\ C10_Header(meta.sections[k]) = C10_Header(full.sections[k])
             /\ meta.sections[k].items = full.sections[k].items
        /\ Finished(meta)
           => /\ Len(meta.chunks) >= Len(full.chunks)
              /\ Len(meta.mdld.sections) >= Len(full.mdld.sections)
              /\ C10_FullFailedInSkipped
                 \/ /\ meta.pc = full.pc
                    /\ meta.error = full.error
                    /\ meta.chunks = full.chunks
                    /\ Len(meta.sections) = Len(full.sections)
                    /\ Len(meta.mdld.sections) = Len(full.mdld.sections)

\* both decodes finished a file whose data chunk holds an INDE chunk of two
\* triangles followed by a texture chunk: the triangles are decoded only by
\* the full decode, the texture by both, at the same offset
C10_Witness ==
    /\ mdl[FALSE].pc = "done"
    /\ mdl[TRUE].pc = "done"
    /\ Len(mdl[TRUE].mdld.sections) = 2
    /\ mdl[TRUE].mdld.sections[1].type_id = << 73, 78, 68, 69 >>
    /\ ~mdl[TRUE].mdld.sections[1].parsed
    /\ Len(mdl[FALSE].mdld.sections[1].items) = 2
    /\ mdl[TRUE].mdld.sections[2].type_id = << 84, 69, 88, 84 >>
    /\ mdl[TRUE].mdld.sections[2] = mdl[FALSE].mdld.sections[2]
    /\ mdl[TRUE].mdld.sections[2].header_offset
         = mdl[TRUE].mdld.sections[1].header_offset + 8 + 12
    /\ Len(mdl[TRUE].mdld.sections[2].items) = 1

\* the nine tags of the RIFF level: MDLH MDLG MDLN SMAP PARA CRAS BBOX RADI
\* MDLD
C11_RIFFTags ==
    { << 77, 68, 76, 72 >>, << 77, 68, 76, 71 >>, << 77, 68, 76, 78 >>,
      << 83, 77, 65, 80 >>, << 80, 65, 82, 65 >>, << 67, 82, 65, 83 >>,
      << 66, 66, 79, 88 >>, << 82, 65, 68, 73 >>, << 77, 68, 76, 68 >> }

\* the nineteen tags of the data chunk: TEXT MATE INDE VERB TRAN AMAP SCEN
\* SGAL SGVL SGJC SGBR LODT ANIB PLAL REFL ATTO VISL MREC MREI
C11_MDLDTags ==
    { << 84, 69, 88, 84 >>, << 77, 65, 84, 69 >>, << 73, 78, 68, 69 >>,
      << 86, 69, 82, 66 >>, << 84, 82, 65, 78 >>, << 65, 77, 65, 80 >>,
      << 83, 67, 69, 78 >>, << 83, 71, 65, 76 >>, << 83, 71, 86, 76 >>,
      << 83, 71, 74, 67 >>, << 83, 71, 66, 82 >>, << 76, 79, 68, 84 >>,
      << 65, 78, 73, 66 >>, << 80, 76, 65, 76 >>, << 82, 69, 70, 76 >>,
      << 65, 84, 84, 79 >>, << 86, 73, 83, 76 >>, << 77, 82, 69, 67 >>,
      << 77, 82, 69, 73 >> }

\* the chunk header the decode with metadata_only = m reads next carries a
\* tag outside the table of its level
C11_UnknownTagNext(m) ==
    \/ /\ mdl[m].pc = "riff"
       /\ CanUnpack(mdl_buf, mdl[m].current_offset, 8)
       /\ SubSeq(mdl_buf, mdl[m].current_offset + 1, mdl[m].current_offset + 4)
            \notin C11_RIFFTags
    \/ /\ mdl[m].pc = "mdld"
       /\ CanUnpack(mdl_buf, mdl[m].mdld.current_offset, 8)
       /\ SubSeq(mdl_buf, mdl[m].mdld.current_offset + 1, mdl[m].mdld.current_offset + 4)
            \notin C11_MDLDTags

\* C11: in both modes a chunk whose tag is not in the tag table of its level
\* makes the decode fail at that chunk: the chunk is not set as a section at
\* either level, and the failed decode reads no later chunk.
C11_UnknownChunkFails ==
    [][ \A m \in BOOLEAN :
          /\ (C11_UnknownTagNext(m) /\ mdl'[m] # mdl[m])
             => /\ mdl'[m].pc = "failed"
                /\ mdl'[m].error # "none"
                /\ mdl'[m].sections = mdl[m].sections
                /\ mdl'[m].mdld.sections = mdl[m].mdld.sections
          /\ mdl[m].pc = "failed" => mdl'[m] = mdl[m] ]_vars

\* both decodes stopped at an unknown tag of the data chunk that follows a
\* decoded chunk and is followed by another chunk in the file
C11_Witness ==
    \A m \in BOOLEAN :
      /\ mdl[m].pc = "failed"
      /\ mdl[m].error = "Exception: Unknown section"
      /\ Len(mdl[m].mdld.sections) = 1
      /\ mdl[m].chunks[Len(mdl[m].chunks)].level = "mdld"
      /\ mdl[m].chunks[Len(mdl[m].chunks)].type_id = << 88, 88, 88, 88 >>
      /\ Len(mdl_buf) > mdl[m].chunks[Len(mdl[m].chunks)].offset + 8 + 4

\* the headers of the TEXT chunks the decode read inside the data chunk
C12_TextHeaders(f) ==
    { k \in 1..Len(f.chunks) :
        f.chunks[k].level = "mdld" /\ f.chunks[k].type_id = << 84, 69, 88, 84 >> }

\* the bytes of the slot at offset o that precede its first zero byte
C12_SlotName(o) ==
    LET zeros == { i \in 1..64 : mdl_buf[o + i] = 0 }
        first == IF zeros = {} THEN 65 ELSE CHOOSE i \in zeros : \A j \in zeros : i <= j
    IN  SubSeq(mdl_buf, o + 1, o + first - 1)

\* C12: after a successful decode get_texture_names returns one name per
\* 64-byte slot of the TEXT table of the data chunk, in file order, each the
\* bytes of its slot up to the zero byte, and the empty list when the file
\* has no data chunk or the data chunk has no TEXT chunk; both modes return
\* the same list.
C12_TextureNames ==
    /\ \A m \in BOOLEAN :
         mdl[m].pc = "done"
         => LET names == get_texture_names(mdl[m])
                texts == C12_TextHeaders(mdl[m])
            IN  IF texts = {} THEN names = << >>
                ELSE LET h == mdl[m].chunks[CHOOSE k \in texts : \A l \in texts : l <= k]
                     IN  h.data_size % 64 = 0
                         => /\ Len(names) = h.data_size \div 64
                            /\ \A i \in 1..Len(names) :
                                 names[i] = C12_SlotName(h.offset + 8 + 64 * (i - 1))
    /\ (mdl[FALSE].pc = "done" /\ mdl[TRUE].pc = "done")
       => get_texture_names(mdl[TRUE]) = get_texture_names(mdl[FALSE])

\* both decodes succeeded on a file whose TEXT table holds "C.D" then "A",
\* and both return the two names in that order
C12_Witness ==
    \A m \in BOOLEAN :
      /\ mdl[m].pc = "done"
      /\ get_texture_names(mdl[m]) = << << 67, 46, 68 >>, << 65 >> >>

\* a decode succeeded on a file without a data chunk, and one on a file whose
\* data chunk has no TEXT chunk: there are no texture names
C12_WitnessEmpty ==
    /\ mdl[TRUE].pc = "done"
    /\ get_texture_names(mdl[TRUE]) = << >>
    /\ ~HasAttr(mdl[TRUE].sections, Tag.MDLD)

\* the item stride of the fixed-stride chunks, by tag: TEXT 64, MATE 120,
\* INDE 6, TRAN 64, AMAP 8
C26_Stride(type_id) ==
    IF type_id = << 84, 69, 88, 84 >> THEN 64
    ELSE IF type_id = << 77, 65, 84, 69 >> THEN 120
    ELSE IF type_id = << 73, 78, 68, 69 >> THEN 6
    ELSE IF type_id = << 84, 82, 65, 78 >> THEN 64
    ELSE IF type_id = << 65, 77, 65, 80 >> THEN 8
    ELSE 0

\* the fixed-stride chunks of the data chunk whose payload was decoded
C26_Decoded(f) ==
    { s \in { f.mdld.sections[k] : k \in 1..Len(f.mdld.sections) } :
        s.parsed /\ C26_Stride(s.type_id) > 0 }

\* C26 as the specification states it: a decoded fixed-stride chunk holds
\* payload length divided by stride items, none of them built from bytes
\* beyond the end of the declared payload, also when the payload length is
\* not a multiple of the stride.
C26_ItemsWithinPayload ==
    \A m \in BOOLEAN :
        \A s \in C26_Decoded(mdl[m]) :
            /\ Len(s.items) = s.data_size \div C26_Stride(s.type_id)
            /\ \A i \in 1..Len(s.items) :
                 s.items[i].offset + C26_Stride(s.type_id)
                   <= s.header_offset + 8 + s.data_size

\* C27 as the specification states it: after a successful decode the offset
\* reached after the last child chunk equals the payload start plus the
\* declared length of the parent, at the top RIFF level and in the data chunk:
\* no child reaching past the end of its parent is accepted.
C27_ChildrenTileParent ==
    \A m \in BOOLEAN :
        mdl[m].pc = "done" =>
            /\ mdl[m].current_offset
                 = mdl[m].file_offset + mdl[m].header.data_size
            /\ mdl[m].mdld.header.type_id = Tag.MDLD =>
                 mdl[m].mdld.current_offset
                   = mdl[m].mdld.file_offset + mdl[m].mdld.header.data_size

\* the payload bytes of chunk c that lie in the file
C29_Payload(c) ==
    SubSeq(mdl_buf, c.offset + 9,
           IF c.offset + 8 + c.data_size < Len(mdl_buf)
           THEN c.offset + 8 + c.data_size ELSE Len(mdl_buf))

\* the bytes of the payload before its first zero byte
C29_Name(c) ==
    LET p == C29_Payload(c)
        z == CHOOSE i \in 1..Len(p) : p[i] = 0 /\ \A j \in 1..(i - 1) : p[j] # 0
    IN  SubSeq(p, 1, z - 1)

\* C29 as the specification states it: a friendly-name chunk whose payload
\* contains a zero byte is decoded successfully and its name is the bytes
\* before that zero byte, the empty name included.
C29_NameDecoded ==
    \A m \in BOOLEAN :
        \A k \in 1..Len(mdl[m].chunks) :
            LET c == mdl[m].chunks[k]
            IN  ( /\ c.type_id = Tag.MDLN
                  /\ c.level = "riff"
                  /\ \E i \in 1..Len(C29_Payload(c)) : C29_Payload(c)[i] = 0 )
                => \E j \in 1..Len(mdl[m].sections) :
                      /\ mdl[m].sections[j].header_offset = c.offset
                      /\ mdl[m].sections[j].items
                           = << [offset |-> c.offset + 8, value |-> C29_Name(c)] >>

(***************************************************************************)
(* Termination of the decoders (specification SpecDecode)                  *)
(***************************************************************************)
\* the record loops never run more iterations than the subsection declares
C28_LoopsBounded ==
    /\ pc \in {"record", "model"} => loop.k < subsection.header.records_number
    /\ \A x \in AllSubsections :
         x.cls \in {"SceneryObject", "ModelData"}
           => Len(x.records) <= x.header.records_number

\* an iteration of a chunk loop that does not raise moves the offset of its
\* level forward by the 8 bytes of the chunk header at least
C28_ChunkAdvances ==
    \A m \in BOOLEAN :
        /\ (mdl # << >> /\ mdl[m].pc = "riff" /\ mdl'[m] # mdl[m] /\ mdl'[m].pc # "failed")
             => mdl'[m].current_offset >= mdl[m].current_offset + 8
        /\ (mdl # << >> /\ mdl[m].pc = "mdld" /\ mdl'[m] # mdl[m] /\ mdl'[m].pc # "failed")
             => mdl'[m].mdld.current_offset >= mdl[m].mdld.current_offset + 8

\* consecutive items of a fixed-stride chunk are one stride apart
C28_ItemsAdvance ==
    mdl # << >> =>
      \A m \in BOOLEAN :
        \A x \in C26_Decoded(mdl[m]) :
            \A i \in 1..(Len(x.items) - 1) :
                x.items[i + 1].offset = x.items[i].offset + C26_Stride(x.type_id)

\* a string reader returns only from a buffer with a zero byte and raises
\* IndexError on a buffer without one
C28_ReadersStop ==
    LET zero == \E i \in 1..Len(util_call.arg) : util_call.arg[i] = 0
    IN  /\ util_result.state = "returned" => zero
        /\ (util_call # NoCall /\ util_result # Pending /\ ~zero)
             => util_result = Raised("IndexError")

\* what was started has ended: the decode of the BGL file is done or failed,
\* both decodes of the MDL file are, the string reader returned or raised
C28_Ended ==
    /\ pc \in {"idle", "done", "failed"}
    /\ mdl = << >> \/ \A m \in BOOLEAN : mdl[m].pc \in {"done", "failed"}
    /\ util_call = NoCall \/ util_result.state \in {"returned", "raised"}
    /\ pc # "idle" \/ mdl # << >> \/ util_call # NoCall

\* C28: the decode of a finite buffer ends, with a result or with an error:
\* a file decode once started reaches done or failed, a call of a string
\* reader returns or raises; the record loops run at most records_number
\* iterations, also over a record of declared size 0; a chunk loop moves on
\* by 8 bytes at least, an item loop by its stride; a string reader stops at
\* a zero byte or fails at the end of the buffer.
C28_DecodeTerminates ==
    /\ <>C28_Ended
    /\ [](C28_LoopsBounded /\ C28_ItemsAdvance /\ C28_ReadersStop)
    /\ [][C28_ChunkAdvances]_vars

\* a decode that ended after reading the same record of declared size 0
\* twice, as the subsection declares two records
C28_Witness ==
    /\ pc = "done"
    /\ \E x \in C21_Decoded :
         /\ x.header.records_number = 2
         /\ Len(x.records) = 2
         /\ x.records[1].size = 0
         /\ x.records[2].offset = x.records[1].offset

(***************************************************************************)
(* Properties of ModelsDB (specification SpecDB)                           *)
(***************************************************************************)
\* the mapping that save wrote to the cache file under the given key
C30_Saved(key) == json_loads(cache)[key]

\* C30 as the specification states it: load() of a cache file written by
\* save(), and the construction of a ModelsDB over such a file, succeed and
\* restore the four mappings to the saved values.
C30_CacheRoundTrips ==
    [][ (Call_load \/ (cache # NoFile /\ New_ModelsDB(FALSE)))
        => /\ models_db'.state = "ready"
           /\ models_db'.error = "none"
           /\ models_db'.file_2_uuids = C30_Saved("file_2_uuids")
           /\ models_db'.uuid_2_files = C30_Saved("uuid_2_files")
           /\ models_db'.placement_2_files = C30_Saved("placement_2_files")
           /\ models_db'.file_2_placements = C30_Saved("file_2_placements") ]_vars

(***************************************************************************)
(* Properties of the functions of utils.py (specification SpecUtils)       *)
(***************************************************************************)
\* the 0-based indices of the zero bytes of the buffer of the call
ZeroIndices == { i \in 0..(Len(util_call.arg) - 1) : util_call.arg[i + 1] = 0 }

\* the 0-based index of the first zero byte of the buffer of the call
FirstZero == CHOOSE z \in ZeroIndices : \A y \in ZeroIndices : z <= y

\* C13: whenever read_stringz_word_aligned returns, the byte count it
\* returns is even and is the smallest even number greater than the index of
\* the first zero byte: the terminator plus one padding byte when the
\* terminator is at an even index, the terminator alone when it is at an odd
\* index.
C13_ConsumedIsNextEven ==
    (util_call.fn = "read_stringz_word_aligned" /\ util_result.state = "returned")
    => /\ ZeroIndices # {}
       /\ util_result.value[1] % 2 = 0
       /\ util_result.value[1] > FirstZero
       /\ util_result.value[1] - 2 <= FirstZero
       /\ util_result.value[1] <= Len(util_call.arg)
       /\ util_result.value[1] = (IF FirstZero % 2 = 0 THEN FirstZero + 2 ELSE FirstZero + 1)

\* the reader returned 4 for "AB", the terminator at index 2 and a padding
\* byte
C13_Witness ==
    /\ util_call = [fn |-> "read_stringz_word_aligned", arg |-> << 65, 66, 0, 0 >>]
    /\ util_result.state = "returned"
    /\ util_result.value[1] = 4

\* C14 as the specification states it: the text read_stringz_word_aligned
\* returns is the bytes that precede the first zero byte, whatever the
\* padding byte.
C14_TextIsBytesBeforeZero ==
    (util_call.fn = "read_stringz_word_aligned" /\ util_result.state = "returned")
    => util_result.value[2] = SubSeq(util_call.arg, 1, FirstZero)

\* the buffer of the call holds what the reader needs: a zero byte and, for
\* the word-aligned reader with a zero byte at an even index, the byte after
\* it
C15_Complete ==
    /\ ZeroIndices # {}
    /\ (util_call.fn = "read_stringz_word_aligned" /\ FirstZero % 2 = 0)
       => FirstZero + 2 <= Len(util_call.arg)

\* C15 as the specification states it: read_stringz and
\* read_stringz_word_aligned return for every buffer that holds the
\* terminator (and the padding byte needed) and raise for every buffer that
\* ends before it.
C15_ReturnsIffComplete ==
    (util_call.fn \in {"read_stringz", "read_stringz_word_aligned"}
     /\ util_result # Pending)
    => IF C15_Complete THEN util_result.state = "returned"
       ELSE util_result.state = "raised"

\* the fields of the 16-bit argument and of the 32-bit result of a call of
\* half_float_2_float
C19_h == util_call.arg[1]
C19_s == (C19_h \div 32768) % 2
C19_e == (C19_h \div 1024) % 32
C19_f == C19_h % 1024
C19_S == util_result.value[1] \div 32768
C19_E == (util_result.value[1] \div 128) % 256
C19_F == (util_result.value[1] % 128) * 65536 + util_result.value[2]

\* C19: half_float_2_float returns the single-precision bit pattern of the
\* value of its 16-bit argument: same sign; a normal exponent plus 112 and the
\* mantissa shifted left by 13; a subnormal f * 2^-24 as the equal normal
\* number (1 + F / 2^23) * 2^(E - 127); zero as zero; exponent 31 as
\* exponent 255; and the four bit patterns of 1.0, 0.0 and the infinities.
C19_HalfToSingle ==
    (util_call.fn = "half_float_2_float" /\ util_result # Pending)
    => /\ util_result.state = "returned"
       /\ C19_S = C19_s
       /\ C19_e \in 1..30 => (C19_E = C19_e + 112 /\ C19_F = C19_f * 8192)
       /\ (C19_e = 0 /\ C19_f # 0)
            => /\ C19_E \in 103..112
               /\ C19_F % 8192 = 0
               /\ C19_f * 2^(113 - C19_E) = 1024 + C19_F \div 8192
       /\ (C19_e = 0 /\ C19_f = 0) => (C19_E = 0 /\ C19_F = 0)
       /\ C19_e = 31 => (C19_E = 255 /\ C19_F = C19_f * 8192)
       /\ C19_h = 15360 => util_result.value = << 16256, 0 >>
       /\ C19_h = 0 => util_result.value = << 0, 0 >>
       /\ C19_h = 31744 => util_result.value = << 32640, 0 >>
       /\ C19_h = 64512 => util_result.value = << 65408, 0 >>

\* the smallest negative subnormal, -2^-24, was converted to 0xB3800000
C19_Witness ==
    /\ util_call.fn = "half_float_2_float"
    /\ util_call.arg = << 32769 >>
    /\ util_result = Returned(<< 45952, 0 >>)

\* C20: parse_longitude is strictly increasing over the raw values
\* 0 <= raw < 3 * 2^28, maps raw 0 to -180 degrees exactly and every raw
\* value of the range into [-180, 180) degrees (in units of 15 * 2^-25
\* degrees: into -402653184 .. 402653183).
C20_LongitudeIncreasing ==
    (util_call.fn = "parse_longitude" /\ util_result.state = "returned")
    => LET a == util_call.arg[1]
           b == util_call.arg[2]
           la == util_result.value[1]
           lb == util_result.value[2]
       IN  /\ (a < 805306368 /\ b < 805306368 /\ a < b) => la < lb
           /\ a = 0 => la = -402653184
           /\ a < 805306368 => (-402653184 <= la /\ la < 402653184)
           /\ b < 805306368 => (-402653184 <= lb /\ lb < 402653184)

\* the two ends of the range were converted, the last raw value to the
\* largest longitude below 180 degrees
C20_Witness ==
    /\ util_call.fn = "parse_longitude"
    /\ util_call.arg = << 0, 805306367 >>
    /\ util_result = Returned(<< -402653184, 402653183 >>)


=============================================================================
